---- MODULE Spec2Model ----
(***************************************************************************)
(* Certification core of @dfinity/agent: hash-tree lookup and              *)
(* reconstruction, Certificate.create / verify with delegations, and the   *)
(* pollForResponse state machine (packages/agent/src/request_id.ts).       *)
(*                                                                         *)
(* Representation of the JavaScript values:                                *)
(*   the bytes of a buffer    : a tuple of bytes, <<114, 101>>             *)
(*   undefined / null         : Undefined = <<>>, a present value v is     *)
(*                              Some(v) = <<v>>  (fields that may be unset)*)
(*   HashTree                 : the tagged tuples of the source,           *)
(*                              <<Fork, l, r>>, <<Labeled, label, t>>, ... *)
(*   the value of a Leaf      : tagged with its run-time type, an          *)
(*                              ArrayBuffer or a Uint8Array on a buffer    *)
(*   sha256 digest            : hash(d) = <<"sha256", d>>, an injective    *)
(*                              symbolic digest of the concatenated parts  *)
(*   a thrown exception       : a record [ok |-> FALSE, error |-> e]       *)
(***************************************************************************)
EXTENDS Integers, Sequences, FiniteSets, TLC

(***************************************************************************)
(* Bounds of the model.                                                    *)
(***************************************************************************)
\* readState rounds one poll may perform in the model
MaxRounds == 3

(***************************************************************************)
(* undefined, and values that may be undefined.                            *)
(***************************************************************************)
Undefined == <<>>

Some(v) == <<v>>

IsUndefined(m) == Len(m) = 0

Get(m) == m[1]

(***************************************************************************)
(* TextEncoder / TextDecoder over the texts the program handles.           *)
(***************************************************************************)
Texts ==
  { "request_status", "status", "reply", "reject_code", "reject_message",
    "time", "subnet", "canister_ranges", "public_key",
    "received", "processing", "unknown", "replied", "rejected", "done",
    "pending", "canister not found",
    "ic-hashtree-empty", "ic-hashtree-leaf", "ic-hashtree-labeled",
    "ic-hashtree-fork", "ic-state-root",
    "request_type", "canister_id", "method_name", "arg", "nonce", "sender",
    "call", "hello" }

\* new TextEncoder().encode(s): the UTF-8 bytes of s
TextEncode(s) ==
  CASE s = "request_status" -> <<114, 101, 113, 117, 101, 115, 116, 95, 115, 116, 97, 116, 117, 115>>
    [] s = "status" -> <<115, 116, 97, 116, 117, 115>>
    [] s = "reply" -> <<114, 101, 112, 108, 121>>
    [] s = "reject_code" -> <<114, 101, 106, 101, 99, 116, 95, 99, 111, 100, 101>>
    [] s = "reject_message" -> <<114, 101, 106, 101, 99, 116, 95, 109, 101, 115, 115, 97, 103, 101>>
    [] s = "time" -> <<116, 105, 109, 101>>
    [] s = "subnet" -> <<115, 117, 98, 110, 101, 116>>
    [] s = "canister_ranges" -> <<99, 97, 110, 105, 115, 116, 101, 114, 95, 114, 97, 110, 103, 101, 115>>
    [] s = "public_key" -> <<112, 117, 98, 108, 105, 99, 95, 107, 101, 121>>
    [] s = "received" -> <<114, 101, 99, 101, 105, 118, 101, 100>>
    [] s = "processing" -> <<112, 114, 111, 99, 101, 115, 115, 105, 110, 103>>
    [] s = "unknown" -> <<117, 110, 107, 110, 111, 119, 110>>
    [] s = "replied" -> <<114, 101, 112, 108, 105, 101, 100>>
    [] s = "rejected" -> <<114, 101, 106, 101, 99, 116, 101, 100>>
    [] s = "done" -> <<100, 111, 110, 101>>
    [] s = "pending" -> <<112, 101, 110, 100, 105, 110, 103>>
    [] s = "canister not found" -> <<99, 97, 110, 105, 115, 116, 101, 114, 32, 110, 111, 116, 32, 102, 111, 117, 110, 100>>
    [] s = "ic-hashtree-empty" -> <<105, 99, 45, 104, 97, 115, 104, 116, 114, 101, 101, 45, 101, 109, 112, 116, 121>>
    [] s = "ic-hashtree-leaf" -> <<105, 99, 45, 104, 97, 115, 104, 116, 114, 101, 101, 45, 108, 101, 97, 102>>
    [] s = "ic-hashtree-labeled" -> <<105, 99, 45, 104, 97, 115, 104, 116, 114, 101, 101, 45, 108, 97, 98, 101, 108, 101, 100>>
    [] s = "ic-hashtree-fork" -> <<105, 99, 45, 104, 97, 115, 104, 116, 114, 101, 101, 45, 102, 111, 114, 107>>
    [] s = "ic-state-root" -> <<105, 99, 45, 115, 116, 97, 116, 101, 45, 114, 111, 111, 116>>
    [] s = "request_type" -> <<114, 101, 113, 117, 101, 115, 116, 95, 116, 121, 112, 101>>
    [] s = "canister_id" -> <<99, 97, 110, 105, 115, 116, 101, 114, 95, 105, 100>>
    [] s = "method_name" -> <<109, 101, 116, 104, 111, 100, 95, 110, 97, 109, 101>>
    [] s = "arg" -> <<97, 114, 103>>
    [] s = "nonce" -> <<110, 111, 110, 99, 101>>
    [] s = "sender" -> <<115, 101, 110, 100, 101, 114>>
    [] s = "call" -> <<99, 97, 108, 108>>
    [] s = "hello" -> <<104, 101, 108, 108, 111>>

\* new TextDecoder().decode(b): the text whose UTF-8 bytes are b, without
\* the byte order mark EF BB BF when b starts with one (ignoreBOM is false);
\* no bytes decode to "", bytes that spell none of the texts to "<other text>"
TextDecode(b) ==
  LET text == IF Len(b) >= 3 /\ SubSeq(b, 1, 3) = <<239, 187, 191>>
              THEN SubSeq(b, 4, Len(b)) ELSE b
  IN IF Len(text) = 0 THEN ""
     ELSE IF \E s \in Texts : TextEncode(s) = text
          THEN CHOOSE s \in Texts : TextEncode(s) = text
          ELSE "<other text>"

(***************************************************************************)
(* Exceptions: a throwing operation returns Ok(v) or Throw(e).             *)
(***************************************************************************)
\* An Error object: its message (without the interpolated values) and, for
\* the call-rejected error, the reject code and reject text it interpolates
Error(msg) == [message |-> msg, code |-> Undefined, text |-> ""]

Ok(v) == [ok |-> TRUE, value |-> v, error |-> Error("")]

Throw(e) == [ok |-> FALSE, value |-> Undefined, error |-> e]

\* class CertificateVerificationError: super(`Invalid certificate: ${reason}`)
CertificateVerificationError(reason) == Error("Invalid certificate: " \o reason)

(***************************************************************************)
(* Byte utilities (./utils/buffer) and sha256.                             *)
(***************************************************************************)
\* concat(...parts): kept as the tuple of its parts, so that a digest inside
\* a concatenation stays a digest
concat(parts) == parts

\* hash(data): sha256, an injective symbolic digest
hash(data) == <<"sha256", data>>

bufEquals(a, b) == a = b

(***************************************************************************)
(* Hash trees.                                                             *)
(***************************************************************************)
Empty == 0
Fork == 1
Labeled == 2
Leaf == 3
Pruned == 4

\* The value of a Leaf node, [NodeType.Leaf, value], by its run-time type:
\* an ArrayBuffer that holds bytes, or a Uint8Array of length bytes that
\* starts byteOffset bytes into the ArrayBuffer buffer (a subarray, a node
\* Buffer). A Leaf node without value is <<Leaf>>.
ArrayBuffer(bytes) == <<"ArrayBuffer", bytes>>

Uint8Array(buffer, byteOffset, length) == <<"Uint8Array", buffer, byteOffset, length>>

\* the bytes of a leaf's value that are hashed: those the ArrayBuffer holds,
\* or those the Uint8Array shows of its buffer
bytesOf(v) ==
  IF v[1] = "Uint8Array" THEN SubSeq(v[2], v[3] + 1, v[3] + v[4]) ELSE v[2]

\* function isBufferGreaterThan(a, b): TRUE iff some position i < a.length
\* has a[i] > b[i]; b8[i] past the end of b is undefined and a[i] > undefined
\* is false
isBufferGreaterThan(a, b) ==
  \E i \in 1..Len(a) : i <= Len(b) /\ a[i] > b[i]

\* domain_sep(s) = [s.length] ++ utf8(s)
domain_sep(s) == <<Len(TextEncode(s))>> \o TextEncode(s)

\* reconstruct with the digest of a Pruned node hashed like a leaf
RECURSIVE reconstructHashesPruned(_)
reconstructHashesPruned(t) ==
  CASE t[1] = Empty -> hash(concat(<<domain_sep("ic-hashtree-empty")>>))
    [] t[1] = Pruned -> hash(concat(<<domain_sep("ic-hashtree-leaf"), t[2]>>))
    [] t[1] = Leaf -> hash(concat(<<domain_sep("ic-hashtree-leaf"), bytesOf(t[2])>>))
    [] t[1] = Labeled ->
         hash(concat(<<domain_sep("ic-hashtree-labeled"), t[2], reconstructHashesPruned(t[3])>>))
    [] t[1] = Fork ->
         hash(concat(<<domain_sep("ic-hashtree-fork"), reconstructHashesPruned(t[2]),
                       reconstructHashesPruned(t[3])>>))

RECURSIVE reconstruct(_)
reconstruct(t) ==
  CASE t[1] = Empty -> hash(concat(<<domain_sep("ic-hashtree-empty")>>))
    [] t[1] = Pruned -> t[2]
    [] t[1] = Leaf -> hash(concat(<<domain_sep("ic-hashtree-leaf"), bytesOf(t[2])>>))
    [] t[1] = Labeled ->
         hash(concat(<<domain_sep("ic-hashtree-labeled"), t[2], reconstruct(t[3])>>))
    [] t[1] = Fork ->
         hash(concat(<<domain_sep("ic-hashtree-fork"), reconstruct(t[2]), reconstruct(t[3])>>))

\* LookupStatus and LabelLookupStatus
Unknown == "unknown"
Absent == "absent"
Found == "found"
Less == "less"
Greater == "greater"

\* A lookup result {status, value}; value is Undefined unless Found. A Found
\* value is tagged with its run-time type, which lookupResultToBuffer tests
\* with instanceof: ArrayBuffer(bytes), Uint8Array(buffer, byteOffset,
\* length) or <<"HashTree", tree>>.
Result(st) == [status |-> st, value |-> Undefined]

FoundValue(v) == [status |-> Found, value |-> Some(v)]

FoundBuffer(b) == FoundValue(ArrayBuffer(b))

FoundTree(t) == [status |-> Found, value |-> Some(<<"HashTree", t>>)]

RECURSIVE find_label(_, _)
find_label(label, tree) ==
  CASE tree[1] = Labeled ->
         IF isBufferGreaterThan(label, tree[2]) THEN Result(Greater)
         ELSE IF bufEquals(label, tree[2]) THEN FoundTree(tree[3])
         ELSE Result(Less)
    [] tree[1] = Fork ->
         LET leftLookupResult == find_label(label, tree[2]) IN
         CASE leftLookupResult.status = Greater ->
                LET rightLookupResult == find_label(label, tree[3]) IN
                IF rightLookupResult.status = Less THEN Result(Absent)
                ELSE rightLookupResult
           [] leftLookupResult.status = Unknown ->
                LET rightLookupResult == find_label(label, tree[3]) IN
                IF rightLookupResult.status = Less THEN Result(Unknown)
                ELSE rightLookupResult
           [] OTHER -> leftLookupResult
    [] tree[1] = Pruned -> Result(Unknown)
    [] OTHER -> Result(Absent)

\* A path segment is a string (<<"string", s>>) or a buffer (<<"bytes", b>>).
Str(s) == <<"string", s>>

Buf(b) == <<"bytes", b>>

RECURSIVE lookup_path(_, _)
lookup_path(path, tree) ==
  IF Len(path) = 0
  THEN IF tree[1] = Leaf
       THEN IF Len(tree) < 2 THEN Throw(Error("Invalid tree structure for leaf"))
            ELSE IF tree[2][1] = "ArrayBuffer" THEN FoundValue(tree[2])
            ELSE IF tree[2][1] = "Uint8Array" THEN FoundBuffer(tree[2][2])
            ELSE FoundValue(tree[2])
       ELSE FoundTree(tree)
  ELSE LET label == IF path[1][1] = "string" THEN TextEncode(path[1][2]) ELSE path[1][2]
           lookupResult == find_label(label, tree)
       IN CASE lookupResult.status = Found ->
                 lookup_path(Tail(path), Get(lookupResult.value)[2])
            [] lookupResult.status \in {Greater, Less} -> Result(Absent)
            [] OTHER -> lookupResult

\* lookupResultToBuffer(result): the bytes of the ArrayBuffer that a Found
\* value is, or of the whole buffer of the Uint8Array that it is, else
\* undefined
lookupResultToBuffer(result) ==
  IF result.status # Found THEN Undefined
  ELSE IF Get(result.value)[1] = "ArrayBuffer" THEN Some(Get(result.value)[2])
  ELSE IF Get(result.value)[1] = "Uint8Array" THEN Some(Get(result.value)[2])
  ELSE Undefined

(***************************************************************************)
(* External collaborators: cbor, Principal, decodeTime, Date.now.          *)
(***************************************************************************)
\* cbor.encode of a certificate (done by the replica): an opaque envelope of
\* the value; bytes that are no CBOR are <<"malformed">>
cbor_encode(v) == <<"cbor", v>>

\* cbor.decode(bytes) of a certificate: the enclosed value, or it throws
cbor_decode(bytes) ==
  IF bytes[1] = "cbor" THEN Ok(bytes[2]) ELSE Throw(Error("cbor: decode failed"))

\* CBOR of one byte string shorter than 24 bytes: major type 2, then the bytes
cbor_bstr(b) == <<64 + Len(b)>> \o b

RECURSIVE cbor_pairs(_)
cbor_pairs(ranges) ==
  IF Len(ranges) = 0 THEN <<>>
  ELSE <<130>> \o cbor_bstr(ranges[1][1]) \o cbor_bstr(ranges[1][2])
       \o cbor_pairs(Tail(ranges))

\* CBOR of the canister ranges, an array of [low, high] pairs of byte strings
cbor_encode_ranges(ranges) == <<128 + Len(ranges)>> \o cbor_pairs(ranges)

\* one byte string read off the front of b: its value and the bytes after it
cbor_read_bstr(b) ==
  [val |-> SubSeq(b, 2, 1 + (b[1] - 64)), rest |-> SubSeq(b, 2 + (b[1] - 64), Len(b))]

RECURSIVE cbor_read_pairs(_, _)
cbor_read_pairs(b, n) ==
  IF n = 0 THEN <<>>
  ELSE LET lo == cbor_read_bstr(Tail(b))
           hi == cbor_read_bstr(lo.rest)
       IN <<<<lo.val, hi.val>>>> \o cbor_read_pairs(hi.rest, n - 1)

\* cbor.decode(rangeLookup.value): Array<[Uint8Array, Uint8Array]>
cbor_decode_ranges(b) == cbor_read_pairs(Tail(b), b[1] - 128)

\* Principal.compareTo: bytewise over the common prefix, then by length
RECURSIVE principal_compareTo(_, _)
principal_compareTo(a, b) ==
  IF Len(a) = 0 \/ Len(b) = 0
  THEN IF Len(a) < Len(b) THEN "lt" ELSE IF Len(a) > Len(b) THEN "gt" ELSE "eq"
  ELSE IF a[1] < b[1] THEN "lt"
  ELSE IF a[1] > b[1] THEN "gt"
  ELSE principal_compareTo(Tail(a), Tail(b))

ltEq(a, b) == principal_compareTo(a, b) \in {"lt", "eq"}

gtEq(a, b) == principal_compareTo(a, b) \in {"gt", "eq"}

\* Principal.toString(): the textual form (base32 of crc32 ++ bytes, grouped)
\* of the principals of the model
principal_toString(p) ==
  CASE p = <<>> -> "aaaaa-aa"
    [] p = <<1>> -> "uuc56-gyb"
    [] p = <<2>> -> "hqgi5-iic"
    [] p = <<3>> -> "jmf34-nyd"
    [] p = <<4>> -> "2vxsx-fae"
    [] p = <<5>> -> "ujubw-aqf"
    [] p = <<2, 0>> -> "opxxa-7icaa"
    [] p = <<2, 9>> -> "biz4r-wicbe"

MANAGEMENT_CANISTER_ID == "aaaaa-aa"

\* The value of a 'time' leaf is the unsigned LEB128 of a count of
\* nanoseconds; the model keeps the count as <<ms, ns>> = ms * 10^6 + ns
\* with 0 <= ns < 10^6.  decodeTime(buf).getTime(): the whole milliseconds.
decodeTime(buf) == buf[1]

\* Date.now() at the time of a verification, in ms
Now == 1000000

(***************************************************************************)
(* DER-wrapped BLS keys.                                                   *)
(***************************************************************************)
DER_PREFIX ==
  <<48, 129, 130, 48, 29, 6, 13, 43, 6, 1, 4, 1, 130, 220, 124, 5, 3, 1, 2, 1,
    6, 12, 43, 6, 1, 4, 1, 130, 220, 124, 5, 3, 2, 1, 3, 97, 0>>

KEY_LENGTH == 96

extractDER(buf) ==
  LET expectedLength == Len(DER_PREFIX) + KEY_LENGTH
      prefix == SubSeq(buf, 1, Len(DER_PREFIX))
  IN IF Len(buf) # expectedLength
     THEN Throw(Error("BLS DER-encoded public key must be 133 bytes long"))
     ELSE IF ~bufEquals(prefix, DER_PREFIX)
     THEN Throw(Error("BLS DER-encoded public key is invalid"))
     ELSE Ok(SubSeq(buf, Len(DER_PREFIX) + 1, Len(buf)))

(***************************************************************************)
(* check_canister_ranges                                                   *)
(***************************************************************************)
check_canister_ranges(canisterId, subnetId, tree) ==
  LET rangeLookup == lookup_path(<<Str("subnet"), Buf(subnetId), Str("canister_ranges")>>, tree)
  IN IF rangeLookup.status # Found \/ Get(rangeLookup.value)[1] # "ArrayBuffer"
     THEN Throw(Error("Could not find canister ranges for subnet"))
     ELSE LET ranges == cbor_decode_ranges(Get(rangeLookup.value)[2])
          IN Ok(\E i \in 1..Len(ranges) :
                   ltEq(ranges[i][1], canisterId) /\ gtEq(ranges[i][2], canisterId))

(***************************************************************************)
(* class Certificate                                                       *)
(***************************************************************************)
\* A number that may be Infinity
Finite(n) == [inf |-> FALSE, n |-> n]

Infinity == [inf |-> TRUE, n |-> 0]

\* CreateCertificateOptions; blsVerify is the environment of the model
Options(certificate, rootKey, canisterId, maxAgeInMinutes, disableTimeVerification) ==
  [certificate |-> certificate, rootKey |-> rootKey, canisterId |-> canisterId,
   maxAgeInMinutes |-> maxAgeInMinutes,
   disableTimeVerification |-> disableTimeVerification]

\* private constructor: the defaults of the parameters and cbor.decode
Certificate(certificate, rootKey, canisterId, maxAgeInMinutes, disableTimeVerification) ==
  LET decoded == cbor_decode(certificate)
  IN IF ~decoded.ok THEN Throw(decoded.error)
     ELSE Ok([cert |-> decoded.value,
              rootKey |-> rootKey,
              canisterId |-> canisterId,
              maxAgeInMinutes |->
                IF IsUndefined(maxAgeInMinutes) THEN Finite(5) ELSE Get(maxAgeInMinutes),
              disableTimeVerification |->
                IF IsUndefined(disableTimeVerification) THEN FALSE
                ELSE Get(disableTimeVerification)])

createUnverified(options) ==
  Certificate(options.certificate, options.rootKey, options.canisterId,
              options.maxAgeInMinutes, options.disableTimeVerification)

\* Certificate.lookup(path)
lookup(c, path) == lookup_path(path, c.cert.tree)

\* verifyUntilBls with the time looked up and checked before the key is
\* unwrapped
verifyUntilBlsTimeFirst(c, derKey, now) ==
  LET rootHash == reconstruct(c.cert.tree)
      sig == c.cert.signature
      key == extractDER(derKey)
      msg == concat(<<domain_sep("ic-state-root"), rootHash>>)
      lookupTime == lookupResultToBuffer(lookup(c, <<Str("time")>>))
      FIVE_MINUTES_IN_MSEC == 5 * 60 * 1000
      earliestPassed ==
        c.maxAgeInMinutes.inf \/ ~(decodeTime(Get(lookupTime)) < now - c.maxAgeInMinutes.n * 60 * 1000)
      fiveMinutesFromNow == now + FIVE_MINUTES_IN_MSEC
  IN IF IsUndefined(lookupTime)
     THEN Throw(CertificateVerificationError("Certificate does not contain a time"))
     ELSE IF ~c.disableTimeVerification /\ ~earliestPassed
     THEN Throw(CertificateVerificationError("Certificate is signed more than maxAgeInMinutes minutes in the past"))
     ELSE IF ~c.disableTimeVerification /\ decodeTime(Get(lookupTime)) > fiveMinutesFromNow
     THEN Throw(CertificateVerificationError("Certificate is signed more than 5 minutes in the future"))
     ELSE IF ~key.ok THEN Throw(key.error)
     ELSE Ok([pk |-> key.value, sig |-> sig, msg |-> msg])

\* verifyUntilBls with the time looked up only when time verification is
\* enabled
verifyUntilBlsTimeOptional(c, derKey, now) ==
  LET rootHash == reconstruct(c.cert.tree)
      sig == c.cert.signature
      key == extractDER(derKey)
      msg == concat(<<domain_sep("ic-state-root"), rootHash>>)
      lookupTime == lookupResultToBuffer(lookup(c, <<Str("time")>>))
      FIVE_MINUTES_IN_MSEC == 5 * 60 * 1000
      earliestPassed ==
        c.maxAgeInMinutes.inf \/ ~(decodeTime(Get(lookupTime)) < now - c.maxAgeInMinutes.n * 60 * 1000)
      fiveMinutesFromNow == now + FIVE_MINUTES_IN_MSEC
  IN IF ~key.ok THEN Throw(key.error)
     ELSE IF ~c.disableTimeVerification /\ IsUndefined(lookupTime)
     THEN Throw(CertificateVerificationError("Certificate does not contain a time"))
     ELSE IF ~c.disableTimeVerification /\ ~earliestPassed
     THEN Throw(CertificateVerificationError("Certificate is signed more than maxAgeInMinutes minutes in the past"))
     ELSE IF ~c.disableTimeVerification /\ decodeTime(Get(lookupTime)) > fiveMinutesFromNow
     THEN Throw(CertificateVerificationError("Certificate is signed more than 5 minutes in the future"))
     ELSE Ok([pk |-> key.value, sig |-> sig, msg |-> msg])

\* verify(), from the end of _checkDelegationAndGetKey to the call of
\* _blsVerify: the arguments of that call, or the exception thrown before it
verifyUntilBls(c, derKey, now) ==
  LET rootHash == reconstruct(c.cert.tree)
      sig == c.cert.signature
      key == extractDER(derKey)
      msg == concat(<<domain_sep("ic-state-root"), rootHash>>)
      lookupTime == lookupResultToBuffer(lookup(c, <<Str("time")>>))
      FIVE_MINUTES_IN_MSEC == 5 * 60 * 1000
      earliestPassed ==
        c.maxAgeInMinutes.inf \/ ~(decodeTime(Get(lookupTime)) < now - c.maxAgeInMinutes.n * 60 * 1000)
      fiveMinutesFromNow == now + FIVE_MINUTES_IN_MSEC
  IN IF ~key.ok THEN Throw(key.error)
     ELSE IF IsUndefined(lookupTime)
     THEN Throw(CertificateVerificationError("Certificate does not contain a time"))
     ELSE IF ~c.disableTimeVerification /\ ~earliestPassed
     THEN Throw(CertificateVerificationError("Certificate is signed more than maxAgeInMinutes minutes in the past"))
     ELSE IF ~c.disableTimeVerification /\ decodeTime(Get(lookupTime)) > fiveMinutesFromNow
     THEN Throw(CertificateVerificationError("Certificate is signed more than 5 minutes in the future"))
     ELSE Ok([pk |-> key.value, sig |-> sig, msg |-> msg])

\* checkDelegationInner without the check for a nested delegation
checkDelegationInnerAcceptsNested(c) ==
  LET d == Get(c.cert.delegation)
  IN createUnverified(Options(d.certificate, c.rootKey, c.canisterId, Some(Infinity), Undefined))

\* checkDelegationInner with the maximum age of the outer certificate passed
\* on to the inner one
checkDelegationInnerSameMaxAge(c) ==
  LET d == Get(c.cert.delegation)
      cert == createUnverified(Options(d.certificate, c.rootKey, c.canisterId,
                                       Some(c.maxAgeInMinutes), Undefined))
  IN IF ~cert.ok THEN cert
     ELSE IF ~IsUndefined(cert.value.cert.delegation)
     THEN Throw(CertificateVerificationError("Delegation certificates cannot be nested"))
     ELSE cert

\* _checkDelegationAndGetKey(d) for a delegation d, up to `await cert.verify()`:
\* the unverified inner Certificate, or the exception thrown before
checkDelegationInner(c) ==
  LET d == Get(c.cert.delegation)
      cert == createUnverified(Options(d.certificate, c.rootKey, c.canisterId,
                                       Some(Infinity), Undefined))
  IN IF ~cert.ok THEN cert
     ELSE IF ~IsUndefined(cert.value.cert.delegation)
     THEN Throw(CertificateVerificationError("Delegation certificates cannot be nested"))
     ELSE cert

\* checkDelegationKey without the canister range check
checkDelegationKeyOfAnyCanister(c, cert) ==
  LET d == Get(c.cert.delegation)
      publicKeyLookup ==
        lookupResultToBuffer(lookup(cert, <<Str("subnet"), Buf(d.subnet_id), Str("public_key")>>))
  IN IF IsUndefined(publicKeyLookup)
     THEN Throw(Error("Could not find subnet key for subnet"))
     ELSE Ok(Get(publicKeyLookup))

\* checkDelegationKey returning the root key in place of the subnet's key
checkDelegationKeyReturnsRootKey(c, cert) ==
  LET d == Get(c.cert.delegation)
      canisterInRange ==
        IF principal_toString(c.canisterId) # MANAGEMENT_CANISTER_ID
        THEN check_canister_ranges(c.canisterId, d.subnet_id, cert.cert.tree)
        ELSE Ok(TRUE)
      publicKeyLookup ==
        lookupResultToBuffer(lookup(cert, <<Str("subnet"), Buf(d.subnet_id), Str("public_key")>>))
  IN IF ~canisterInRange.ok THEN canisterInRange
     ELSE IF ~canisterInRange.value
     THEN Throw(CertificateVerificationError("Canister not in range of delegations for subnet"))
     ELSE IF IsUndefined(publicKeyLookup)
     THEN Throw(Error("Could not find subnet key for subnet"))
     ELSE Ok(c.rootKey)

\* _checkDelegationAndGetKey(d) after `await cert.verify()` has resolved: the
\* canister range check and the lookup of the subnet's public key
checkDelegationKey(c, cert) ==
  LET d == Get(c.cert.delegation)
      canisterInRange ==
        IF principal_toString(c.canisterId) # MANAGEMENT_CANISTER_ID
        THEN check_canister_ranges(c.canisterId, d.subnet_id, cert.cert.tree)
        ELSE Ok(TRUE)
      publicKeyLookup ==
        lookupResultToBuffer(lookup(cert, <<Str("subnet"), Buf(d.subnet_id), Str("public_key")>>))
  IN IF ~canisterInRange.ok THEN canisterInRange
     ELSE IF ~canisterInRange.value
     THEN Throw(CertificateVerificationError("Canister not in range of delegations for subnet"))
     ELSE IF IsUndefined(publicKeyLookup)
     THEN Throw(Error("Could not find subnet key for subnet"))
     ELSE Ok(Get(publicKeyLookup))

\* verify(): whether the awaited _blsVerify call verified the signature; an
\* exception of the verifier counts as false
signatureVerified(outcome) ==
  IF outcome = "throw" THEN FALSE ELSE outcome = "true"

\* _checkDelegationAndGetKey(undefined)
checkDelegationNone(c) == c.rootKey

(***************************************************************************)
(* One Certificate.create(options) in progress: where it is suspended, the *)
(* objects it holds privately, the _blsVerify calls it has made, and its   *)
(* settlement (result is Undefined until it resolves or rejects).          *)
(***************************************************************************)
Verification(at, c, inner, calls, runs, result) ==
  [pc |-> at, c |-> c, inner |-> inner, blsCalls |-> calls, blsResults |-> <<>>,
   verifyRuns |-> runs, result |-> result]

NoVerification == Verification("idle", Undefined, Undefined, <<>>, 0, Undefined)

Rejected(v, e) ==
  [v EXCEPT !.pc = "rejected", !.result = Some(Throw(e))]

\* Certificate.create(options) up to its first await of _blsVerify
Certificate_create(options, now) ==
  LET made == createUnverified(options)
      c == made.value
      started == Verification("idle", Some(c), Undefined, <<>>, 1, Undefined)
  IN IF ~made.ok THEN Rejected(NoVerification, made.error)
     ELSE IF IsUndefined(c.cert.delegation)
     THEN LET call == verifyUntilBls(c, checkDelegationNone(c), now)
          IN IF ~call.ok THEN Rejected(started, call.error)
             ELSE [started EXCEPT !.pc = "blsOuter", !.blsCalls = <<call.value>>]
     ELSE LET cert == checkDelegationInner(c)
              innerStarted == [started EXCEPT !.inner = Some(cert.value), !.verifyRuns = 2]
              call == verifyUntilBls(cert.value, checkDelegationNone(cert.value), now)
          IN IF ~cert.ok THEN Rejected(started, cert.error)
             ELSE IF ~call.ok THEN Rejected(innerStarted, call.error)
             ELSE [innerStarted EXCEPT !.pc = "blsInner", !.blsCalls = <<call.value>>]

\* the inner certificate's _blsVerify call settles: the inner verify() ends,
\* _checkDelegationAndGetKey finishes and the outer verify() runs up to its
\* own _blsVerify call
innerBlsSettled(v, outcome, now) ==
  LET w == [v EXCEPT !.blsResults = Append(@, outcome)]
      key == checkDelegationKey(Get(v.c), Get(v.inner))
      call == verifyUntilBls(Get(v.c), key.value, now)
  IN IF ~signatureVerified(outcome)
     THEN Rejected(w, CertificateVerificationError("Signature verification failed"))
     ELSE IF ~key.ok THEN Rejected(w, key.error)
     ELSE IF ~call.ok THEN Rejected(w, call.error)
     ELSE [w EXCEPT !.pc = "blsOuter", !.blsCalls = Append(@, call.value)]

\* outerBlsSettled with the verdict of the verifier ignored
outerBlsSettledWhateverVerdict(v, outcome) ==
  [v EXCEPT !.blsResults = Append(@, outcome), !.pc = "resolved",
            !.result = Some(Ok(Get(v.c)))]

\* outerBlsSettled without the try/catch: an exception of the verifier leaves
\* verify() as it is
outerBlsSettledRethrows(v, outcome) ==
  LET w == [v EXCEPT !.blsResults = Append(@, outcome)]
  IN IF outcome = "throw" THEN Rejected(w, Error("blsVerify: verifier failed"))
     ELSE IF outcome = "false"
     THEN Rejected(w, CertificateVerificationError("Signature verification failed"))
     ELSE [w EXCEPT !.pc = "resolved", !.result = Some(Ok(Get(v.c)))]

\* the outer certificate's _blsVerify call settles: verify() ends and create
\* returns the certificate
outerBlsSettled(v, outcome) ==
  LET w == [v EXCEPT !.blsResults = Append(@, outcome)]
  IN IF ~signatureVerified(outcome)
     THEN Rejected(w, CertificateVerificationError("Signature verification failed"))
     ELSE [w EXCEPT !.pc = "resolved", !.result = Some(Ok(Get(v.c)))]

(***************************************************************************)
(* pollForResponse                                                         *)
(***************************************************************************)
\* RequestStatusResponseStatus
Received == "received"
Processing == "processing"
Replied == "replied"
RejectedStatus == "rejected"
UnknownStatus == "unknown"
Done == "done"

\* const path = [new TextEncoder().encode('request_status'), requestId]
statusPath(requestId) == <<Buf(TextEncode("request_status")), Buf(requestId)>>

\* statusOf with a missing status decoded like an empty byte string
statusOfDecodesNothing(cert, requestId) ==
  LET maybeBuf ==
        lookupResultToBuffer(lookup(cert, Append(statusPath(requestId), Buf(TextEncode("status")))))
  IN TextDecode(IF IsUndefined(maybeBuf) THEN <<>> ELSE Get(maybeBuf))

\* the status a verified certificate reports for the request
statusOf(cert, requestId) ==
  LET maybeBuf ==
        lookupResultToBuffer(lookup(cert, Append(statusPath(requestId), Buf(TextEncode("status")))))
  IN IF IsUndefined(maybeBuf) THEN UnknownStatus ELSE TextDecode(Get(maybeBuf))

\* the bytes of a reject code or text that may be undefined
bytesOrEmpty(maybeBuf) == IF IsUndefined(maybeBuf) THEN <<>> ELSE Get(maybeBuf)

\* dispatch with the reply read from the 'status' leaf
dispatchReplyFromStatus(status, cert, requestId) ==
  LET path == statusPath(requestId) IN
  IF status = Replied
  THEN [kind |-> "return", status |-> status,
        reply |-> lookupResultToBuffer(lookup(cert, Append(path, Str("status")))),
        error |-> Error("")]
  ELSE IF status \in {Received, UnknownStatus, Processing}
  THEN [kind |-> "retry", status |-> status, reply |-> Undefined, error |-> Error("")]
  ELSE [kind |-> "throw", status |-> status, reply |-> Undefined, error |-> Error("unreachable")]

\* dispatch with the Rejected case falling through to the retry
dispatchRejectedRetries(status, cert, requestId) ==
  LET path == statusPath(requestId) IN
  IF status = Replied
  THEN [kind |-> "return", status |-> status,
        reply |-> lookupResultToBuffer(lookup(cert, Append(path, Str("reply")))),
        error |-> Error("")]
  ELSE IF status \in {Received, UnknownStatus, Processing, RejectedStatus}
  THEN [kind |-> "retry", status |-> status, reply |-> Undefined, error |-> Error("")]
  ELSE [kind |-> "throw", status |-> status, reply |-> Undefined, error |-> Error("unreachable")]

\* dispatch with the Done case treated like Replied
dispatchDoneReturns(status, cert, requestId) ==
  LET path == statusPath(requestId) IN
  IF status \in {Replied, Done}
  THEN [kind |-> "return", status |-> status,
        reply |-> lookupResultToBuffer(lookup(cert, Append(path, Str("reply")))),
        error |-> Error("")]
  ELSE IF status \in {Received, UnknownStatus, Processing}
  THEN [kind |-> "retry", status |-> status, reply |-> Undefined, error |-> Error("")]
  ELSE [kind |-> "throw", status |-> status, reply |-> Undefined, error |-> Error("unreachable")]

\* dispatch with every status, terminal or not, handed to the strategy
dispatchAlwaysRetries(status, cert, requestId) ==
  [kind |-> "retry", status |-> status, reply |-> Undefined, error |-> Error("")]

\* dispatch with a status that is none of the six retried like Unknown
dispatchForeignRetries(status, cert, requestId) ==
  LET path == statusPath(requestId) IN
  CASE status = Replied ->
         [kind |-> "return", status |-> status,
          reply |-> lookupResultToBuffer(lookup(cert, Append(path, Str("reply")))),
          error |-> Error("")]
    [] status \in {Received, UnknownStatus, Processing} ->
         [kind |-> "retry", status |-> status, reply |-> Undefined, error |-> Error("")]
    [] status = RejectedStatus ->
         LET code == bytesOrEmpty(lookupResultToBuffer(lookup(cert, Append(path, Str("reject_code")))))
             text == bytesOrEmpty(lookupResultToBuffer(lookup(cert, Append(path, Str("reject_message")))))
         IN [kind |-> "throw", status |-> status, reply |-> Undefined,
             error |-> [message |-> "Call was rejected",
                        code |-> IF Len(code) = 0 THEN Undefined ELSE Some(code[1]),
                        text |-> TextDecode(text)]]
    [] status = Done ->
         [kind |-> "throw", status |-> status, reply |-> Undefined,
          error |-> Error("Call was marked as done but we never saw the reply")]
    [] OTHER ->
         [kind |-> "retry", status |-> status, reply |-> Undefined, error |-> Error("")]

\* switch (status): what pollForResponse does with a verified certificate
\*   "return": resolve with {reply, certificate}
\*   "retry" : await strategy(canisterId, requestId, status), then recurse
\*   "throw" : reject with the error
dispatch(status, cert, requestId) ==
  LET path == statusPath(requestId) IN
  CASE status = Replied ->
         [kind |-> "return", status |-> status,
          reply |-> lookupResultToBuffer(lookup(cert, Append(path, Str("reply")))),
          error |-> Error("")]
    [] status \in {Received, UnknownStatus, Processing} ->
         [kind |-> "retry", status |-> status, reply |-> Undefined, error |-> Error("")]
    [] status = RejectedStatus ->
         LET code == bytesOrEmpty(lookupResultToBuffer(lookup(cert, Append(path, Str("reject_code")))))
             text == bytesOrEmpty(lookupResultToBuffer(lookup(cert, Append(path, Str("reject_message")))))
         IN [kind |-> "throw", status |-> status, reply |-> Undefined,
             error |-> [message |-> "Call was rejected",
                        code |-> IF Len(code) = 0 THEN Undefined ELSE Some(code[1]),
                        text |-> TextDecode(text)]]
    [] status = Done ->
         [kind |-> "throw", status |-> status, reply |-> Undefined,
          error |-> Error("Call was marked as done but we never saw the reply")]
    [] OTHER ->
         [kind |-> "throw", status |-> status, reply |-> Undefined,
          error |-> Error("unreachable")]

(***************************************************************************)
(* The environment: certificates a replica may answer with.  A scenario    *)
(* names what the certificate was built to contain:                        *)
(*   body : what the tree holds for the request                            *)
(*   time : the certificate's 'time' leaf                                  *)
(*   deleg: the delegation it carries                                      *)
(***************************************************************************)
ReplyBytes == <<170, 187>>

RejectCode == <<4>>

leaf(b) == <<Leaf, ArrayBuffer(b)>>

labeled(s, t) == <<Labeled, TextEncode(s), t>>

fork(l, r) == <<Fork, l, r>>

\* the digest of a subtree the replica pruned
prunedDigest == reconstruct(labeled("reply", leaf(ReplyBytes)))

Bodies ==
  { "received", "processing", "unknown", "replied", "rejected", "done", "pending",
    "absent", "pruned", "subtree", "repliedPruned", "sibling", "marked" }

\* the subtree under ['request_status', requestId]
statusTree(body) ==
  CASE body \in {"received", "processing", "unknown", "done", "pending"} ->
         labeled("status", leaf(TextEncode(body)))
    [] body \in {"replied", "sibling"} ->
         fork(labeled("reply", leaf(ReplyBytes)), labeled("status", leaf(TextEncode("replied"))))
    [] body = "repliedPruned" ->
         fork(<<Pruned, prunedDigest>>, labeled("status", leaf(TextEncode("replied"))))
    [] body = "marked" ->
         fork(labeled("reply", leaf(ReplyBytes)),
              labeled("status", leaf(<<239, 187, 191>> \o TextEncode("replied"))))
    [] body = "rejected" ->
         fork(labeled("reject_code", leaf(RejectCode)),
              fork(labeled("reject_message", leaf(TextEncode("canister not found"))),
                   labeled("status", leaf(TextEncode("rejected")))))
    [] body = "subtree" ->
         labeled("status", labeled("reply", leaf(ReplyBytes)))
    [] OTHER -> <<Empty>>

\* a request id that sorts before every request id of the model
OtherRequestId == <<0, 255>>

requestStatusTree(requestId, body) ==
  CASE body = "pruned" -> labeled("request_status", <<Pruned, prunedDigest>>)
    [] body = "absent" -> labeled("request_status", <<Empty>>)
    [] body = "sibling" ->
         labeled("request_status",
                 fork(<<Labeled, OtherRequestId, statusTree("processing")>>,
                      <<Labeled, requestId, statusTree(body)>>))
    [] OTHER -> labeled("request_status", <<Labeled, requestId, statusTree(body)>>)

Times ==
  { "fresh", "missing", "old", "future", "ancient",
    "earliest", "beforeEarliest", "latest", "afterLatest" }

FiveMinutes == 5 * 60 * 1000

\* the value of the 'time' leaf, <<ms, ns>>: ms milliseconds and ns further
\* nanoseconds (0 .. 999999) since the epoch; "earliest" and "latest" are the
\* ends of the window of the default maximum age, "beforeEarliest" and
\* "afterLatest" are one nanosecond outside of it
timeValue(time) ==
  CASE time = "fresh" -> <<Now, 0>>
    [] time = "earliest" -> <<Now - FiveMinutes, 0>>
    [] time = "beforeEarliest" -> <<Now - FiveMinutes - 1, 999999>>
    [] time = "latest" -> <<Now + FiveMinutes, 0>>
    [] time = "afterLatest" -> <<Now + FiveMinutes, 1>>
    [] time = "old" -> <<Now - FiveMinutes - 1, 0>>
    [] time = "future" -> <<Now + FiveMinutes + 1, 0>>
    [] time = "ancient" -> <<0, 0>>

withTime(tree, time) ==
  IF time = "missing" THEN tree ELSE fork(tree, labeled("time", leaf(timeValue(time))))

\* DER-wrapped BLS public keys: of the root (1) and of the subnet (2)
keyBytes(k) == [i \in 1..KEY_LENGTH |-> k]

derKey(k) == DER_PREFIX \o keyBytes(k)

RootKey == derKey(1)

SubnetKey == derKey(2)

\* a key one byte short, and a key with a wrong first prefix byte
ShortKey == SubSeq(RootKey, 1, Len(RootKey) - 1)

BadPrefixKey == <<49>> \o Tail(RootKey)

SubnetId == <<7, 7>>

\* the canister ranges of the subnet: [1 .. 1] and [2 .. 3]
SubnetRanges == << <<<<1>>, <<1>>>>, <<<<2>>, <<3>>>> >>

Delegations ==
  { "none", "ok", "nested", "noRanges", "emptyRanges", "noKey", "badKey",
    "keySubtree", "malformed", "innerFuture", "innerAncient", "innerNoTime",
    "innerAfterLatest" }

\* the tree of a delegation certificate
subnetTree(deleg) ==
  LET ranges == labeled("canister_ranges",
                        leaf(cbor_encode_ranges(IF deleg = "emptyRanges" THEN <<>> ELSE SubnetRanges)))
      key == labeled("public_key",
                     CASE deleg = "badKey" -> leaf(ShortKey)
                       [] deleg = "keySubtree" -> labeled("status", leaf(SubnetKey))
                       [] OTHER -> leaf(SubnetKey))
      entry == CASE deleg = "noRanges" -> key
                 [] deleg = "noKey" -> ranges
                 [] OTHER -> fork(ranges, key)
      time == CASE deleg = "innerFuture" -> "future"
                [] deleg = "innerAfterLatest" -> "afterLatest"
                [] deleg = "innerAncient" -> "ancient"
                [] deleg = "innerNoTime" -> "missing"
                [] OTHER -> "fresh"
  IN withTime(labeled("subnet", <<Labeled, SubnetId, entry>>), time)

Cert(tree, signature, delegation) ==
  [tree |-> tree, signature |-> signature, delegation |-> delegation]

\* the delegation of a certificate
delegationOf(deleg) ==
  CASE deleg = "none" -> Undefined
    [] deleg = "malformed" ->
         Some([subnet_id |-> SubnetId, certificate |-> <<"malformed">>])
    [] deleg = "nested" ->
         Some([subnet_id |-> SubnetId,
               certificate |->
                 cbor_encode(Cert(subnetTree("ok"), <<2>>,
                                  Some([subnet_id |-> SubnetId,
                                        certificate |-> cbor_encode(Cert(subnetTree("ok"), <<3>>, Undefined))])))])
    [] OTHER ->
         Some([subnet_id |-> SubnetId,
               certificate |-> cbor_encode(Cert(subnetTree(deleg), <<2>>, Undefined))])

Scenario(body, time, deleg) == [body |-> body, time |-> time, deleg |-> deleg]

\* the bytes of the certificate of a scenario, for a request
certificateOf(sc, requestId) ==
  cbor_encode(Cert(withTime(requestStatusTree(requestId, sc.body), sc.time), <<1>>,
                   delegationOf(sc.deleg)))

(***************************************************************************)
(* The state machine.                                                      *)
(***************************************************************************)
VARIABLES
  pc,              \* where the caller is: "idle", inside pollForResponse
                   \* ("createReadStateRequest", "readState", "certificate",
                   \* "strategy", "returned", "failed") or inside a direct
                   \* Certificate.create ("create", "settled")
  call,            \* the arguments of pollForResponse
  currentRequest,  \* const currentRequest of the current frame
  ver,             \* the Certificate.create in progress
  result,          \* how pollForResponse / Certificate.create settled
  \* the environment and what it has seen of the program (history)
  history,         \* TRUE: the histories below are kept in full and a poll is
                   \* cut off after MaxRounds rounds; FALSE: only the latest
                   \* entry of each is kept and a poll may run forever
  createCalls,     \* number of agent.createReadStateRequest calls
  readStateCalls,  \* the request argument of each agent.readState call
  strategyCalls,   \* the status argument of each strategy call
  statuses,        \* the status read off each verified certificate
  served,          \* the status each certificate answered by readState was
                   \* built to report
  given,           \* what the certificate under verification was built from
  failure,         \* the exception an awaited agent or strategy call raised
  \* a caller of the pure functions: what it holds and what it was returned
  tree,            \* a hash tree, a pruned form of it, a path and the results
                   \* of lookup_path, find_label and reconstruct on them
  hashing          \* a value and the result of hashValue / requestIdOf on it

vars ==
  <<pc, call, currentRequest, ver, result, history, createCalls, readStateCalls,
    strategyCalls, statuses, served, given, failure, tree, hashing>>

\* the variables of pollForResponse and Certificate.create
certification ==
  <<pc, call, currentRequest, ver, result, history, createCalls, readStateCalls,
    strategyCalls, statuses, served, given, failure>>

\* the inputs of the model
RequestIds == { <<1, 9>> }

CanisterIds == { <<>>, <<2>>, <<5>>, <<2, 9>> }

PollCanisterIds == { <<2>>, <<5>> }

RootKeys == { RootKey, ShortKey, BadPrefixKey }

MaxAges == { Undefined, Some(Finite(10)), Some(Infinity) }

Flags == { Undefined, Some(TRUE) }

CallerRequest == <<"request of the caller", 0>>

CreatedRequest(n) == <<"request created by the agent", n>>

PollScenarios ==
  { Scenario(b, t, d) : b \in Bodies, t \in {"fresh", "missing"}, d \in {"none", "ok", "nested"} }

CreateScenarios ==
  { Scenario("replied", t, d) : t \in Times, d \in Delegations }

\* the status a certificate of the scenario was built to report
reportedStatus(sc) ==
  CASE sc.body \in {"replied", "repliedPruned", "sibling", "marked"} -> "replied"
    [] sc.body \in {"absent", "pruned", "subtree"} -> "unknown"
    [] OTHER -> sc.body

Given(sc, canisterId, rootKey, maxAge, flag) ==
  [sc |-> sc, canisterId |-> canisterId, rootKey |-> rootKey,
   maxAgeInMinutes |-> maxAge, disableTimeVerification |-> flag]

Agent(rootKey, hasCreate) == [rootKey |-> rootKey, createReadStateRequest |-> hasCreate]

\* a history with one more entry
Log(h, e) == IF history THEN Append(h, e) ELSE <<e>>

Count(n) == IF history THEN n + 1 ELSE 1

InitWith(h) ==
  /\ pc = "idle"
  /\ call = [agent |-> Agent(Undefined, FALSE), canisterId |-> <<>>,
             requestId |-> <<>>, request |-> Undefined]
  /\ currentRequest = Undefined
  /\ ver = NoVerification
  /\ result = Undefined
  /\ history = h
  /\ createCalls = 0
  /\ readStateCalls = <<>>
  /\ strategyCalls = <<>>
  /\ statuses = <<>>
  /\ served = <<>>
  /\ given = Given(Scenario("absent", "missing", "none"), <<>>, Undefined, Undefined, Undefined)
  /\ failure = Undefined

\* no tree and no value at hand
NoTree ==
  [t |-> <<Empty>>, pruned |-> <<Empty>>, path |-> <<>>, lookup |-> Undefined,
   label |-> Undefined, root |-> Undefined]

NoHashing ==
  [original |-> <<"undefined">>, value |-> <<"undefined">>, reordered |-> FALSE,
   unset |-> FALSE, digest |-> Undefined, id |-> Undefined]

Init == InitWith(TRUE) /\ tree = NoTree /\ hashing = NoHashing

\* pollForResponse, from its entry to its first await: the request is the
\* one passed in, else the agent is asked to create one (if it can)
Enter(agent, request) ==
  IF ~IsUndefined(request) \/ ~agent.createReadStateRequest
  THEN /\ currentRequest' = request
       /\ readStateCalls' = Log(readStateCalls, request)
       /\ pc' = "readState"
       /\ UNCHANGED createCalls
  ELSE /\ createCalls' = Count(createCalls)
       /\ pc' = "createReadStateRequest"
       /\ UNCHANGED <<currentRequest, readStateCalls>>

\* AfterCreate with a failed verification taken for an Unknown status
AfterCreateRetriesOnFailure(v) ==
  IF v.pc = "rejected"
  THEN /\ pc' = "strategy"
       /\ strategyCalls' = Log(strategyCalls, UnknownStatus)
       /\ UNCHANGED <<result, statuses>>
  ELSE IF v.pc = "resolved"
  THEN LET cert == Get(v.result).value
           status == statusOf(cert, call.requestId)
           d == dispatch(status, cert, call.requestId)
       IN /\ statuses' = Log(statuses, status)
          /\ pc' = IF d.kind = "return" THEN "returned"
                   ELSE IF d.kind = "retry" THEN "strategy" ELSE "failed"
          /\ result' = IF d.kind = "return" THEN Some(Ok([reply |-> d.reply, certificate |-> cert]))
                       ELSE IF d.kind = "retry" THEN result ELSE Some(Throw(d.error))
          /\ strategyCalls' = IF d.kind = "retry" THEN Log(strategyCalls, d.status) ELSE strategyCalls
  ELSE /\ pc' = "certificate"
       /\ UNCHANGED <<result, strategyCalls, statuses>>

\* pollForResponse after `await Certificate.create(...)`
AfterCreate(v) ==
  IF v.pc = "rejected"
  THEN /\ pc' = "failed"
       /\ result' = v.result
       /\ UNCHANGED <<strategyCalls, statuses>>
  ELSE IF v.pc = "resolved"
  THEN LET cert == Get(v.result).value
           status == statusOf(cert, call.requestId)
           d == dispatch(status, cert, call.requestId)
       IN /\ statuses' = Log(statuses, status)
          /\ CASE d.kind = "return" ->
                    /\ pc' = "returned"
                    /\ result' = Some(Ok([reply |-> d.reply, certificate |-> cert]))
                    /\ UNCHANGED strategyCalls
               [] d.kind = "retry" ->
                    /\ pc' = "strategy"
                    /\ strategyCalls' = Log(strategyCalls, d.status)
                    /\ UNCHANGED result
               [] OTHER ->
                    /\ pc' = "failed"
                    /\ result' = Some(Throw(d.error))
                    /\ UNCHANGED strategyCalls
  ELSE /\ pc' = "certificate"
       /\ UNCHANGED <<result, strategyCalls, statuses>>

\* the caller of Certificate.create after the promise settles
AfterDirectCreate(v) ==
  IF v.pc \in {"rejected", "resolved"}
  THEN pc' = "settled" /\ result' = v.result
  ELSE pc' = "create" /\ UNCHANGED result

\* Fails with the exception caught and the round tried again
FailsAndRetries(e) ==
  /\ pc' = "readState"
  /\ readStateCalls' = Log(readStateCalls, currentRequest)
  /\ failure' = Some(e)
  /\ UNCHANGED <<call, currentRequest, ver, result, history, createCalls,
                 strategyCalls, statuses, served, given>>

\* pollForResponse rejects with the exception of an awaited call
Fails(e) ==
  /\ pc' = "failed"
  /\ result' = Some(Throw(e))
  /\ failure' = Some(e)
  /\ UNCHANGED <<call, currentRequest, ver, history, createCalls, readStateCalls,
                 strategyCalls, statuses, served, given>>

PollForResponse ==
  /\ pc = "idle"
  /\ UNCHANGED <<tree, hashing>>
  /\ \E rootKey \in {Undefined, Some(RootKey)}, hasCreate \in BOOLEAN,
        canisterId \in PollCanisterIds, requestId \in RequestIds,
        request \in {Undefined, Some(CallerRequest)} :
       /\ call' = [agent |-> Agent(rootKey, hasCreate), canisterId |-> canisterId,
                   requestId |-> requestId, request |-> request]
       /\ Enter(Agent(rootKey, hasCreate), request)
  /\ UNCHANGED <<ver, result, history, strategyCalls, statuses, served, given, failure>>

CreateReadStateRequestResolves ==
  /\ pc = "createReadStateRequest"
  /\ UNCHANGED <<tree, hashing>>
  /\ \E created \in {Undefined, Some(CreatedRequest(createCalls))} :
       /\ currentRequest' = created
       /\ readStateCalls' = Log(readStateCalls, created)
  /\ pc' = "readState"
  /\ UNCHANGED <<call, ver, result, history, createCalls, strategyCalls, statuses,
                 served, given, failure>>

CreateReadStateRequestRejects ==
  /\ pc = "createReadStateRequest"
  /\ UNCHANGED <<tree, hashing>>
  /\ Fails(Error("agent: createReadStateRequest failed"))

ReadStateResolves ==
  /\ pc = "readState"
  /\ UNCHANGED <<tree, hashing>>
  /\ \E sc \in PollScenarios :
       /\ served' = Log(served, reportedStatus(sc))
       /\ IF IsUndefined(call.agent.rootKey)
          THEN /\ pc' = "failed"
               /\ result' = Some(Throw(Error("Agent root key not initialized before polling")))
               /\ UNCHANGED <<strategyCalls, statuses, given, ver>>
          ELSE /\ given' = Given(sc, call.canisterId, call.agent.rootKey, Undefined, Undefined)
               /\ ver' = Certificate_create(
                           Options(certificateOf(sc, call.requestId), Get(call.agent.rootKey),
                                   call.canisterId, Undefined, Undefined), Now)
               /\ AfterCreate(ver')
  /\ UNCHANGED <<call, currentRequest, history, createCalls, readStateCalls, failure>>

ReadStateRejects ==
  /\ pc = "readState"
  /\ UNCHANGED <<tree, hashing>>
  /\ Fails(Error("agent: readState failed"))

StrategyResolves ==
  /\ pc = "strategy"
  /\ UNCHANGED <<tree, hashing>>
  /\ history => Len(readStateCalls) < MaxRounds
  /\ Enter(call.agent, currentRequest)
  /\ UNCHANGED <<call, ver, result, history, strategyCalls, statuses, served, given, failure>>

StrategyThrows ==
  /\ pc = "strategy"
  /\ UNCHANGED <<tree, hashing>>
  /\ Fails(Error("strategy: gave up"))

CertificateCreate ==
  /\ pc = "idle"
  /\ UNCHANGED <<tree, hashing>>
  /\ \E sc \in CreateScenarios, canisterId \in CanisterIds, rootKey \in RootKeys,
        maxAge \in MaxAges, flag \in Flags :
       /\ given' = Given(sc, canisterId, Some(rootKey), maxAge, flag)
       /\ ver' = Certificate_create(
                   Options(certificateOf(sc, <<1, 9>>), rootKey, canisterId, maxAge, flag), Now)
       /\ AfterDirectCreate(ver')
  /\ UNCHANGED <<call, currentRequest, history, createCalls, readStateCalls, strategyCalls,
                 statuses, served, failure>>

\* the _blsVerify call of the delegation's certificate settles
InnerBlsVerifySettles ==
  /\ ver.pc = "blsInner"
  /\ UNCHANGED <<tree, hashing>>
  /\ pc \in {"certificate", "create"}
  /\ \E outcome \in {"true", "false", "throw"} :
       ver' = innerBlsSettled(ver, outcome, Now)
  /\ IF pc = "certificate"
     THEN AfterCreate(ver')
     ELSE AfterDirectCreate(ver') /\ UNCHANGED <<strategyCalls, statuses>>
  /\ UNCHANGED <<call, currentRequest, history, createCalls, readStateCalls, served,
                 given, failure>>

\* the _blsVerify call of the certificate itself settles
OuterBlsVerifySettles ==
  /\ ver.pc = "blsOuter"
  /\ UNCHANGED <<tree, hashing>>
  /\ pc \in {"certificate", "create"}
  /\ \E outcome \in {"true", "false", "throw"} :
       ver' = outerBlsSettled(ver, outcome)
  /\ IF pc = "certificate"
     THEN AfterCreate(ver')
     ELSE AfterDirectCreate(ver') /\ UNCHANGED <<strategyCalls, statuses>>
  /\ UNCHANGED <<call, currentRequest, history, createCalls, readStateCalls, served,
                 given, failure>>

Next ==
  \/ PollForResponse
  \/ CreateReadStateRequestRejects
  \/ CreateReadStateRequestResolves
  \/ ReadStateRejects
  \/ ReadStateResolves
  \/ StrategyResolves
  \/ StrategyThrows
  \/ CertificateCreate
  \/ InnerBlsVerifySettles
  \/ OuterBlsVerifySettles

Spec == Init /\ [][Next]_vars

\* The same program without the cut-off, every awaited call settling: the
\* event loop runs a continuation once its promise has settled.
LiveInit == InitWith(FALSE) /\ tree = NoTree /\ hashing = NoHashing

LiveSpec == LiveInit /\ [][Next]_vars /\ WF_vars(Next)

(***************************************************************************)
(* A caller of lookup_path, find_label and reconstruct.  It holds a         *)
(* well-formed tree t (the labels of every fork in ascending byte-lex      *)
(* order), a pruned form of it and a path; subtrees of the pruned form are *)
(* replaced one by one by Pruned nodes that carry their digests, as a      *)
(* replica does, and the caller applies the functions to what it holds.    *)
(***************************************************************************)
\* the labels of the model: a label, labels it is a prefix of, and labels of
\* the same length that differ in the first byte one way and in the second
\* byte the other way
Labels == { <<1>>, <<1, 1>>, <<1, 5>>, <<2, 0>>, <<3>> }

\* a leaf whose value tells the label it is under
at(label, t) == <<Labeled, label, t>>

value(label) == leaf(<<100>> \o label)

\* trees whose leaf holds the bytes of value(<<3>>) as a Uint8Array: one
\* that spans its buffer, one that shows the middle of a longer buffer
ViewTrees ==
  { at(<<3>>, <<Leaf, Uint8Array(<<100, 3>>, 0, 2)>>),
    at(<<3>>, <<Leaf, Uint8Array(<<9, 9, 100, 3, 9>>, 2, 2)>>),
    fork(at(<<1, 5>>, value(<<1, 5>>)),
         at(<<2, 0>>, <<Leaf, Uint8Array(<<100, 2, 0, 0>>, 0, 3)>>)) }

OriginalTrees ==
  { at(l, value(l)) : l \in Labels }
  \cup
  { fork(at(<<1>>, value(<<1>>)), at(<<1, 1>>, value(<<1, 1>>))),
    fork(at(<<1, 5>>, value(<<1, 5>>)), at(<<2, 0>>, value(<<2, 0>>))),
    fork(at(<<1>>, value(<<1>>)),
         fork(at(<<1, 5>>, value(<<1, 5>>)), at(<<2, 0>>, value(<<2, 0>>)))),
    fork(fork(at(<<1, 1>>, value(<<1, 1>>)), at(<<1, 5>>, value(<<1, 5>>))),
         at(<<3>>, value(<<3>>))),
    at(<<3>>, fork(at(<<1, 5>>, value(<<1, 5>>)), at(<<2, 0>>, value(<<2, 0>>)))),
    fork(at(<<1>>, fork(at(<<1>>, value(<<1>>)), at(<<3>>, value(<<3>>)))),
         at(<<2, 0>>, value(<<2, 0>>))) }
  \cup ViewTrees

\* a tree with a Leaf node that has no value, which the type HashTree rules
\* out and lookup_path tests for
UntypedTrees == { at(<<3>>, <<Leaf>>) }

Paths ==
  { <<Buf(l)>> : l \in Labels }
  \cup { <<Buf(<<3>>), Buf(l)>> : l \in {<<1, 5>>, <<2, 0>>, <<3>>} }
  \cup { <<Buf(<<1>>), Buf(l)>> : l \in {<<1>>, <<1, 1>>, <<3>>} }

\* the addresses of the nodes of a tree: the tuple indices from the root
RECURSIVE Addresses(_)
Addresses(t) ==
  {<<>>} \cup
  CASE t[1] = Fork ->
         { <<2>> \o a : a \in Addresses(t[2]) } \cup { <<3>> \o a : a \in Addresses(t[3]) }
    [] t[1] = Labeled -> { <<3>> \o a : a \in Addresses(t[3]) }
    [] OTHER -> {}

RECURSIVE SubtreeAt(_, _)
SubtreeAt(t, a) == IF Len(a) = 0 THEN t ELSE SubtreeAt(t[a[1]], Tail(a))

RECURSIVE ReplaceAt(_, _, _)
ReplaceAt(t, a, s) ==
  IF Len(a) = 0 THEN s ELSE [t EXCEPT ![a[1]] = ReplaceAt(t[a[1]], Tail(a), s)]

TreeInit ==
  /\ InitWith(TRUE)
  /\ hashing = NoHashing
  /\ \E t \in OriginalTrees \cup UntypedTrees, p \in Paths :
       tree = [t |-> t, pruned |-> t, path |-> p, lookup |-> Undefined,
               label |-> Undefined, root |-> Undefined]

\* the replica prunes one more subtree; the trees of a replica are typed
Prune ==
  /\ tree.t \notin UntypedTrees
  /\ \E a \in Addresses(tree.pruned) :
       /\ SubtreeAt(tree.pruned, a)[1] # Pruned
       /\ tree' = [tree EXCEPT
                     !.pruned = ReplaceAt(tree.pruned, a,
                                          <<Pruned, reconstruct(SubtreeAt(tree.pruned, a))>>),
                     !.lookup = Undefined, !.label = Undefined, !.root = Undefined]
  /\ UNCHANGED <<certification, hashing>>

LookupPath ==
  /\ IsUndefined(tree.lookup)
  /\ tree' = [tree EXCEPT !.lookup = Some(lookup_path(tree.path, tree.pruned))]
  /\ UNCHANGED <<certification, hashing>>

FindLabel ==
  /\ IsUndefined(tree.label)
  /\ tree' = [tree EXCEPT !.label = Some(find_label(tree.path[1][2], tree.pruned))]
  /\ UNCHANGED <<certification, hashing>>

\* reconstruct hands the value of a leaf to concat, so it is called on
\* trees whose leaves hold bytes
Reconstruct ==
  /\ IsUndefined(tree.root)
  /\ tree.t \notin UntypedTrees
  /\ tree' = [tree EXCEPT !.root = Some(reconstruct(tree.pruned))]
  /\ UNCHANGED <<certification, hashing>>

TreeNext ==
  \/ Prune
  \/ LookupPath
  \/ FindLabel
  \/ Reconstruct

TreeSpec == TreeInit /\ [][TreeNext]_vars

(***************************************************************************)
(* Representation-independent hashing: hashValue, hashOfMap, requestIdOf.  *)
(* A JavaScript value is a tuple whose first element names its kind:       *)
(*   "abc"                 Str("abc")       300            Num(300)        *)
(*   new Uint8Array([1])   Buf(<<1>>)       300n           BigInt(300)     *)
(*   [a, b]                Arr(<<a, b>>)    a Principal    PrincipalOf(b)  *)
(*   new borc.Tagged(t, v) Tagged(v)        {toHash() {return v}}          *)
(*                                                         ToHashable(v)   *)
(*   {k1: v1, k2: v2}      Obj(<< <<k1, v1>>, <<k2, v2>> >>), the entries  *)
(*                         in the order Object.entries gives them          *)
(*   null, true, undefined, () => {}, Symbol()                             *)
(*                         Null, Bool(TRUE), UndefinedValue, Func, Sym     *)
(***************************************************************************)
Num(n) == <<"number", n>>

BigInt(n) == <<"bigint", n>>

Arr(vs) == <<"array", vs>>

PrincipalOf(bytes) == <<"principal", bytes>>

Tagged(v) == <<"tagged", v>>

ToHashable(v) == <<"toHash", v>>

Obj(entries) == <<"object", entries>>

Null == <<"null">>

Bool(b) == <<"boolean", b>>

UndefinedValue == <<"undefined">>

Func == <<"function">>

Sym == <<"symbol">>

\* an Error object: the name of its constructor, its message, and the value
\* property that hashValue attaches to the error it throws
ErrorObject(name, message, attached) ==
  [name |-> name, message |-> message, value |-> attached]

\* a call that returned a digest, a call that threw
Returns(d) == [ok |-> TRUE, digest |-> d, error |-> ErrorObject("", "", Undefined)]

Raises(e) == [ok |-> FALSE, digest |-> <<>>, error |-> e]

\* `${value}` of the values that reach the throw of hashValue
TemplateText(v) ==
  CASE v[1] = "undefined" -> "undefined"
    [] v[1] = "boolean" -> IF v[2] THEN "true" ELSE "false"
    [] v[1] = "function" -> "() => {}"

\* lebEncode(value): unsigned minimal LEB128
RECURSIVE lebEncode(_)
lebEncode(n) ==
  IF n < 128 THEN <<n>> ELSE <<(n % 128) + 128>> \o lebEncode(n \div 128)

\* const hashString = (value) => hash(new TextEncoder().encode(value))
hashString(s) == hash(TextEncode(s))

\* new Uint8Array(digest): the leading bytes of the sha256 digests of the
\* keys of the model
digestBytes(d) ==
  CASE d = hashString("request_type") -> <<118, 158>>
    [] d = hashString("canister_id") -> <<10, 62>>
    [] d = hashString("method_name") -> <<41, 53>>
    [] d = hashString("arg") -> <<178, 95>>
    [] d = hashString("nonce") -> <<120, 55>>
    [] d = hashString("sender") -> <<10, 54>>

\* compare(b1, b2) of ./utils/buffer: the sign of the unsigned byte-lex
\* order of two buffers
RECURSIVE compare(_, _)
compare(u1, u2) ==
  IF Len(u1) = 0 /\ Len(u2) = 0 THEN 0
  ELSE IF Len(u1) = 0 THEN -1
  ELSE IF Len(u2) = 0 THEN 1
  ELSE IF u1[1] # u2[1] THEN (IF u1[1] < u2[1] THEN -1 ELSE 1)
  ELSE compare(Tail(u1), Tail(u2))

\* traversed.sort(([k1], [k2]) => compare(k1, k2)): Array.prototype.sort is
\* stable, a pair goes behind the pairs whose key does not compare greater
insertPair(sorted, pair) ==
  LET notGreater == { i \in 1..Len(sorted) :
                        compare(digestBytes(sorted[i][1]), digestBytes(pair[1])) <= 0 }
      n == Cardinality(notGreater)
  IN SubSeq(sorted, 1, n) \o <<pair>> \o SubSeq(sorted, n + 1, Len(sorted))

RECURSIVE sortPairs(_)
sortPairs(pairs) ==
  IF Len(pairs) = 0 THEN <<>>
  ELSE insertPair(sortPairs(SubSeq(pairs, 1, Len(pairs) - 1)), pairs[Len(pairs)])

\* concat(...sorted.map(x => concat(...x))): the bytes of the pairs one
\* after the other, each pair the digest of its key and that of its value
RECURSIVE concatPairs(_)
concatPairs(pairs) ==
  IF Len(pairs) = 0 THEN <<>>
  ELSE concat(Head(pairs)) \o concatPairs(Tail(pairs))

\* the first of a sequence of calls that threw, if one did
firstRaised(outcomes) ==
  LET raised == { i \in 1..Len(outcomes) : ~outcomes[i].ok }
  IN IF raised = {} THEN Undefined
     ELSE Some(outcomes[CHOOSE i \in raised : \A j \in raised : i <= j])

RECURSIVE hashValue(_)
RECURSIVE hashOfMap(_)

\* Object.entries(map).filter(...).map(...): the [hashedKey, hashedValue]
\* pairs of the entries, in their order; an exception of hashValue ends it
hashedEntries(entries) ==
  LET outcomes == [i \in 1..Len(entries) |-> hashValue(entries[i][2])]
  IN IF ~IsUndefined(firstRaised(outcomes)) THEN Get(firstRaised(outcomes))
     ELSE Returns([i \in 1..Len(entries) |->
                     <<hashString(entries[i][1]), outcomes[i].digest>>])

\* hashOfMap that leaves the pairs in the order of the entries
hashOfMapUnsorted(map) ==
  IF map[1] = "null"
  THEN Raises(ErrorObject("TypeError", "Cannot convert undefined or null to object",
                          Undefined))
  ELSE LET hashed == hashedEntries(SelectSeq(map[2], LAMBDA e : e[2][1] # "undefined"))
       IN IF ~hashed.ok THEN hashed
          ELSE Returns(hash(concatPairs(hashed.digest)))

\* hashOfMap that hashes every entry, the unset ones too
hashOfMapKeepsUnset(map) ==
  IF map[1] = "null"
  THEN Raises(ErrorObject("TypeError", "Cannot convert undefined or null to object",
                          Undefined))
  ELSE LET hashed == hashedEntries(map[2])
       IN IF ~hashed.ok THEN hashed
          ELSE Returns(hash(concatPairs(sortPairs(hashed.digest))))

\* export function hashOfMap(map): Object.entries throws a TypeError for
\* null; the entries whose value is undefined are dropped, the others hashed,
\* sorted by the digest of the key, concatenated and hashed
hashOfMap(map) ==
  IF map[1] = "null"
  THEN Raises(ErrorObject("TypeError", "Cannot convert undefined or null to object",
                          Undefined))
  ELSE LET hashed == hashedEntries(SelectSeq(map[2], LAMBDA e : e[2][1] # "undefined"))
       IN IF ~hashed.ok THEN hashed
          ELSE Returns(hash(concatPairs(sortPairs(hashed.digest))))

\* export function hashValue(value): the first branch whose test the value
\* passes.  typeof null is 'object', so null goes to hashOfMap; the message
\* of the final throw is a template literal, which throws a TypeError for a
\* Symbol before the Error is made
hashValue(v) ==
  CASE v[1] = "tagged" -> hashValue(v[2])
    [] v[1] = "string" -> Returns(hashString(v[2]))
    [] v[1] = "number" -> Returns(hash(lebEncode(v[2])))
    [] v[1] = "bytes" -> Returns(hash(v[2]))
    [] v[1] = "array" ->
         LET vals == [i \in 1..Len(v[2]) |-> hashValue(v[2][i])]
         IN IF ~IsUndefined(firstRaised(vals)) THEN Get(firstRaised(vals))
            ELSE Returns(hash(concat([i \in 1..Len(vals) |-> vals[i].digest])))
    [] v[1] = "principal" -> Returns(hash(v[2]))
    [] v[1] = "toHash" -> hashValue(v[2])
    [] v[1] \in {"object", "null"} -> hashOfMap(v)
    [] v[1] = "bigint" -> Returns(hash(lebEncode(v[2])))
    [] v[1] = "symbol" ->
         Raises(ErrorObject("TypeError", "Cannot convert a Symbol value to a string",
                            Undefined))
    [] OTHER ->
         Raises(ErrorObject("Error",
                            "Attempt to hash a value of unsupported type: "
                              \o TemplateText(v),
                            Some(v)))

\* export function requestIdOf(request)
requestIdOf(request) == hashOfMap(request)

(***************************************************************************)
(* A caller of hashValue and requestIdOf.  It holds a value, builds the    *)
(* same value again with the entries of one of its objects in another      *)
(* order or with a key more that is set to undefined, and hashes what it   *)
(* holds.                                                                  *)
(***************************************************************************)
CanisterId == PrincipalOf(<<0, 0, 0, 0, 0, 0, 4, 210>>)

CallRequest ==
  Obj(<< <<"request_type", Str("call")>>, <<"canister_id", CanisterId>>,
         <<"method_name", Str("hello")>>, <<"arg", Buf(<<68, 73, 68, 76>>)>> >>)

\* the values hashValue has no branch for
Unsupported == { Null, Bool(TRUE), Bool(FALSE), UndefinedValue, Func, Sym }

Values ==
  { CallRequest,
    Obj(<< <<"canister_id", CanisterId>>, <<"sender", PrincipalOf(<<4>>)>> >>),
    Obj(<< <<"arg", Obj(<< <<"method_name", Str("hello")>>, <<"nonce", Buf(<<1>>)>> >>)>>,
           <<"request_type", Str("call")>> >>),
    Obj(<< <<"arg", UndefinedValue>>, <<"method_name", Str("hello")>> >>),
    Obj(<<>>),
    Arr(<< Obj(<< <<"request_type", Str("call")>>, <<"arg", Num(300)>> >>), Num(300) >>),
    Arr(<<>>),
    Tagged(Obj(<< <<"method_name", Str("hello")>>, <<"arg", BigInt(300)>> >>)),
    ToHashable(Str("call")),
    Str("hello"), Num(0), Num(127), Num(128), BigInt(300), Buf(<<68, 73>>), CanisterId }
  \cup Unsupported
  \cup { Arr(<<Str("call"), u>>) : u \in Unsupported }
  \cup { Obj(<< <<"arg", u>>, <<"method_name", Str("hello")>> >>) : u \in Unsupported }
  \cup { Tagged(u) : u \in Unsupported }
  \cup { ToHashable(Null), ToHashable(Sym),
         Obj(<< <<"arg", Bool(TRUE)>>, <<"nonce", Func>> >>),
         Obj(<< <<"arg", Arr(<<Null>>)>> >>) }

\* the keys the caller may set to undefined
UnsetKeys == { "nonce", "sender" }

\* the addresses of the values inside a value: the tuple indices from the top
RECURSIVE ValueAddresses(_)
ValueAddresses(v) ==
  {<<>>} \cup
  CASE v[1] \in {"tagged", "toHash"} -> { <<2>> \o a : a \in ValueAddresses(v[2]) }
    [] v[1] = "array" ->
         UNION { { <<2, i>> \o a : a \in ValueAddresses(v[2][i]) } : i \in 1..Len(v[2]) }
    [] v[1] = "object" ->
         UNION { { <<2, i, 2>> \o a : a \in ValueAddresses(v[2][i][2]) } : i \in 1..Len(v[2]) }
    [] OTHER -> {}

ObjectAddresses(v) == { a \in ValueAddresses(v) : SubtreeAt(v, a)[1] = "object" }

KeysOf(object) == { object[2][i][1] : i \in 1..Len(object[2]) }

HashInit ==
  /\ InitWith(TRUE)
  /\ tree = NoTree
  /\ \E v \in Values :
       hashing = [original |-> v, value |-> v, reordered |-> FALSE, unset |-> FALSE,
                  digest |-> Undefined, id |-> Undefined]

\* the caller builds the value with two neighbouring entries of one of its
\* objects the other way round
Reorder ==
  /\ \E a \in ObjectAddresses(hashing.value) :
       LET object == SubtreeAt(hashing.value, a)
       IN \E i \in 1..(Len(object[2]) - 1) :
            hashing' = [hashing EXCEPT
                          !.value = ReplaceAt(hashing.value, a,
                                      Obj([object[2] EXCEPT ![i] = object[2][i + 1],
                                                            ![i + 1] = object[2][i]])),
                          !.reordered = TRUE,
                          !.digest = Undefined, !.id = Undefined]
  /\ UNCHANGED <<certification, tree>>

\* the caller builds the value with one more key in one of its objects, set
\* to undefined
Unset ==
  /\ \E a \in ObjectAddresses(hashing.value) :
       LET object == SubtreeAt(hashing.value, a)
       IN \E k \in UnsetKeys \ KeysOf(object), i \in 0..Len(object[2]) :
            hashing' = [hashing EXCEPT
                          !.value = ReplaceAt(hashing.value, a,
                                      Obj(SubSeq(object[2], 1, i)
                                            \o << <<k, UndefinedValue>> >>
                                            \o SubSeq(object[2], i + 1, Len(object[2])))),
                          !.unset = TRUE,
                          !.digest = Undefined, !.id = Undefined]
  /\ UNCHANGED <<certification, tree>>

HashValue ==
  /\ IsUndefined(hashing.digest)
  /\ hashing' = [hashing EXCEPT !.digest = Some(hashValue(hashing.value))]
  /\ UNCHANGED <<certification, tree>>

\* requestIdOf takes a Record<string, unknown>
RequestIdOf ==
  /\ IsUndefined(hashing.id)
  /\ hashing.value[1] = "object"
  /\ hashing' = [hashing EXCEPT !.id = Some(requestIdOf(hashing.value))]
  /\ UNCHANGED <<certification, tree>>

HashNext ==
  \/ Reorder
  \/ Unset
  \/ HashValue
  \/ RequestIdOf

HashSpec == HashInit /\ [][HashNext]_vars

(***************************************************************************)
(* Properties of pollForResponse.                                          *)
(***************************************************************************)
InPoll ==
  pc \in {"createReadStateRequest", "readState", "certificate", "strategy",
          "returned", "failed"}

WaitingStatuses == {Received, Processing, UnknownStatus}

\* the latest certificate answered by readState has been verified and was
\* built to report status st
VerifiedReporting(st) ==
  /\ InPoll
  /\ ver.pc = "resolved"
  /\ Len(served) > 0
  /\ served[Len(served)] = st

\* the Certificate object made from the latest certificate readState answered
LastCertificate ==
  [cert |-> Cert(withTime(requestStatusTree(call.requestId, given.sc.body), given.sc.time),
                 <<1>>, delegationOf(given.sc.deleg)),
   rootKey |-> Get(call.agent.rootKey), canisterId |-> call.canisterId,
   maxAgeInMinutes |-> Finite(5), disableTimeVerification |-> FALSE]

\* C1: when the verified certificates of a poll were built to report n
\* statuses among received, processing, unknown (or no status) and then
\* replied, the poll has returned the reply bytes the last certificate holds
\* under 'reply' (nothing if it holds none) and that certificate, after
\* exactly n + 1 readState calls and exactly n strategy calls, the i-th with
\* the i-th status as its argument.
C1_RepliedAfterRetries ==
  ( /\ VerifiedReporting(Replied)
    /\ \A i \in 1..(Len(served) - 1) : served[i] \in WaitingStatuses )
  => /\ pc = "returned"
     /\ Get(result).ok
     /\ Get(result).value.certificate = LastCertificate
     /\ Get(result).value.reply =
          IF given.sc.body = "repliedPruned" THEN Undefined ELSE Some(ReplyBytes)
     /\ Len(readStateCalls) = Len(served)
     /\ strategyCalls = SubSeq(served, 1, Len(served) - 1)

C1_Witness ==
  /\ pc = "returned"
  /\ served = <<Processing, Processing, Replied>>
  /\ strategyCalls = <<Processing, Processing>>
  /\ Len(readStateCalls) = 3
  /\ Get(result).value.reply = Some(<<170, 187>>)

\* C2: within one poll agent.createReadStateRequest is never called when the
\* caller supplied a request and at most once otherwise, and every readState
\* call receives the same request value as the first one.
C2_RequestObtainedOnce ==
  InPoll =>
    /\ ~IsUndefined(call.request) => createCalls = 0
    /\ createCalls <= 1
    /\ \A i \in 1..Len(readStateCalls) : readStateCalls[i] = readStateCalls[1]

\* C3: when a verified certificate reports 'rejected', the poll has failed
\* with the call-rejected error that carries the first byte of reject_code
\* and the decoded reject_message; no strategy call was made for that
\* status and no readState call after it.
C3_RejectedFails ==
  VerifiedReporting(RejectedStatus)
  => /\ pc = "failed"
     /\ result = Some(Throw([message |-> "Call was rejected",
                             code |-> Some(RejectCode[1]),
                             text |-> "canister not found"]))
     /\ Len(strategyCalls) = Len(served) - 1
     /\ Len(readStateCalls) = Len(served)

C3_Witness ==
  /\ pc = "failed"
  /\ served = <<Received, RejectedStatus>>
  /\ strategyCalls = <<Received>>
  /\ Get(result).error.code = Some(4)

\* C4: when a verified certificate reports 'done', the poll has failed with
\* the done-without-reply error: it returned no reply, made no strategy call
\* for that status and no readState call after it.
C4_DoneFails ==
  VerifiedReporting(Done)
  => /\ pc = "failed"
     /\ result = Some(Throw(Error("Call was marked as done but we never saw the reply")))
     /\ Len(strategyCalls) = Len(served) - 1
     /\ Len(readStateCalls) = Len(served)

C4_Witness ==
  /\ pc = "failed"
  /\ served = <<UnknownStatus, Done>>
  /\ strategyCalls = <<UnknownStatus>>
  /\ Len(readStateCalls) = 2

\* C5: once the strategy has thrown, or readState or createReadStateRequest
\* has failed, the poll has failed with exactly that exception, and from then
\* on it makes no readState, createReadStateRequest or strategy call and
\* verifies no certificate.
C5_FailuresPropagate ==
  /\ [](~IsUndefined(failure) => pc = "failed" /\ result = Some(Throw(Get(failure))))
  /\ [][~IsUndefined(failure) =>
          UNCHANGED <<readStateCalls, createCalls, strategyCalls, statuses, ver>>]_vars

C5_Witness ==
  /\ pc = "failed"
  /\ failure = Some(Error("strategy: gave up"))
  /\ Len(strategyCalls) = 2
  /\ Len(readStateCalls) = 2

\* C6: a poll reads a status only from a certificate whose verification
\* against agent.rootKey has succeeded (every _blsVerify call of it returned
\* true, the last one on the root hash of that certificate); it returns only
\* such a certificate; and a failed verification ends the poll with the
\* verification's error, in any round, without a strategy call or another
\* readState call.
C6_StatusOnlyFromVerified ==
  InPoll =>
    /\ ver.pc \in {"blsInner", "blsOuter"} =>
         pc = "certificate" /\ Len(statuses) = Len(served) - 1
    /\ ver.pc = "rejected" =>
         /\ pc = "failed"
         /\ result = ver.result
         /\ Len(statuses) = Len(served) - 1
         /\ Len(strategyCalls) = Len(statuses)
         /\ Len(readStateCalls) = Len(served)
    /\ Len(statuses) > 0 /\ Len(statuses) = Len(served) =>
         /\ ver.pc = "resolved"
         /\ Len(ver.blsResults) = Len(ver.blsCalls)
         /\ Len(ver.blsCalls) = IF given.sc.deleg = "none" THEN 1 ELSE 2
         /\ \A i \in 1..Len(ver.blsResults) : ver.blsResults[i] = "true"
         /\ Get(ver.c) = LastCertificate
         /\ ver.blsCalls[Len(ver.blsCalls)].msg =
              <<domain_sep("ic-state-root"), reconstruct(LastCertificate.cert.tree)>>
    /\ pc = "returned" =>
         ver.pc = "resolved" /\ Get(result).value.certificate = Get(ver.c)

C6_Witness ==
  /\ pc = "failed"
  /\ ver.pc = "rejected"
  /\ ver.blsResults = <<"true", "throw">>
  /\ served = <<Processing, Processing>>
  /\ statuses = <<Processing>>
  /\ strategyCalls = <<Processing>>

Ended == pc \in {"returned", "failed"}

\* C7 as stated: every poll whose transport calls, verifications and strategy
\* calls all complete makes finitely many readState rounds and then ends by
\* returning a reply or failing.
C7_PollTerminates == InPoll ~> Ended

\* C7: the code bounds nothing: the number of rounds is whatever the strategy
\* and the replica make it.  A poll whose calls all complete either ends by
\* returning a reply or failing, or it awaits the strategy again and again,
\* each time with a status among received, processing, unknown; only the
\* strategy (by throwing) can then end it.
C7_EndsOrAwaitsStrategy ==
  InPoll ~> ( \/ Ended
              \/ /\ pc = "strategy"
                 /\ strategyCalls[1] \in WaitingStatuses
                 /\ ENABLED StrategyThrows )

C7_Witness ==
  /\ ~history
  /\ pc = "strategy"
  /\ ver.pc = "resolved"
  /\ served = <<Processing>>
  /\ strategyCalls = <<Processing>>
  /\ readStateCalls = <<Some(CreatedRequest(1))>>

(***************************************************************************)
(* Properties of Certificate.create, stated on what the certificate under  *)
(* verification was built from (given) and on what the verifier answered.  *)
(***************************************************************************)
\* the caller is inside, or back from, a Certificate.create of its own
InCreate == pc \in {"create", "settled"}

ManagementCanister == <<>>

WellFormedKey(k) ==
  /\ Len(k) = 37 + 96
  /\ \A i \in 1..37 : k[i] = DER_PREFIX[i]

\* the time of a certificate lies between now - maxAge and now + 5 minutes
InWindow(time, maxAge) ==
  LET t == timeValue(time)[1]
  IN /\ maxAge.inf \/ t >= Now - maxAge.n * 60 * 1000
     /\ t <= Now + 5 * 60 * 1000

GivenMaxAge ==
  IF IsUndefined(given.maxAgeInMinutes) THEN Finite(5) ELSE Get(given.maxAgeInMinutes)

InnerTime ==
  CASE given.sc.deleg = "innerFuture" -> "future"
    [] given.sc.deleg = "innerAfterLatest" -> "afterLatest"
    [] given.sc.deleg = "innerAncient" -> "ancient"
    [] given.sc.deleg = "innerNoTime" -> "missing"
    [] OTHER -> "fresh"

\* the canister ranges the delegation certificate was built with, if any
GivenRanges ==
  CASE given.sc.deleg = "noRanges" -> Undefined
    [] given.sc.deleg = "emptyRanges" -> Some(<<>>)
    [] OTHER -> Some(SubnetRanges)

InSomeRange(canisterId, ranges) ==
  \E i \in 1..Len(ranges) :
     /\ principal_compareTo(ranges[i][1], canisterId) # "gt"
     /\ principal_compareTo(canisterId, ranges[i][2]) # "gt"

\* the delegation's certificate passed its own verification
InnerVerified ==
  /\ given.sc.deleg \notin {"none", "nested", "malformed"}
  /\ WellFormedKey(Get(given.rootKey))
  /\ InnerTime # "missing"
  /\ InWindow(InnerTime, Infinity)
  /\ Len(ver.blsResults) >= 1
  /\ ver.blsResults[1] = "true"

RangeCheckPassed ==
  \/ given.canisterId = ManagementCanister
  \/ /\ ~IsUndefined(GivenRanges)
     /\ InSomeRange(given.canisterId, Get(GivenRanges))

\* every step of verify() passed for the certificate given to create
FullyVerified ==
  /\ given.sc.time # "missing"
  /\ \/ given.disableTimeVerification = Some(TRUE)
     \/ InWindow(given.sc.time, GivenMaxAge)
  /\ Len(ver.blsResults) = Len(ver.blsCalls)
  /\ Len(ver.blsResults) > 0
  /\ ver.blsResults[Len(ver.blsResults)] = "true"
  /\ IF given.sc.deleg = "none"
     THEN /\ WellFormedKey(Get(given.rootKey))
          /\ Len(ver.blsCalls) = 1
     ELSE /\ InnerVerified
          /\ RangeCheckPassed
          /\ given.sc.deleg \notin {"noKey", "badKey", "keySubtree"}
          /\ Len(ver.blsCalls) = 2

\* the Certificate instance create makes of what it was given
GivenCertificate ==
  [cert |-> Cert(withTime(requestStatusTree(<<1, 9>>, given.sc.body), given.sc.time),
                 <<1>>, delegationOf(given.sc.deleg)),
   rootKey |-> Get(given.rootKey), canisterId |-> given.canisterId,
   maxAgeInMinutes |-> GivenMaxAge,
   disableTimeVerification |-> given.disableTimeVerification = Some(TRUE)]

\* C8: while a Certificate.create is in progress its caller holds nothing;
\* it resolves, with the Certificate of what it was given, exactly when every
\* step of verify() passed (time present, time in the window unless time
\* verification is disabled, well-formed DER key, the verifier answered true
\* and, with a delegation, the inner certificate verified, the canister range
\* check passed and the subnet key was found); otherwise it rejects with an
\* error and no Certificate.
C8_NoPartiallyVerified ==
  InCreate =>
    /\ pc = "create" => IsUndefined(result) /\ ver.pc \in {"blsInner", "blsOuter"}
    /\ pc = "settled" =>
         /\ ~IsUndefined(result)
         /\ Get(result).ok <=> FullyVerified
         /\ Get(result).ok =>
              ver.pc = "resolved" /\ Get(result).value = GivenCertificate
         /\ ~Get(result).ok =>
              /\ ver.pc = "rejected"
              /\ IsUndefined(Get(result).value)
              /\ Get(result).error.message # ""

C8_Witness ==
  /\ pc = "settled"
  /\ Get(result).ok
  /\ given.sc.deleg = "innerAncient"
  /\ given.sc.time = "old"
  /\ given.maxAgeInMinutes = Some(Finite(10))
  /\ given.canisterId = <<2, 9>>
  /\ ver.blsResults = <<"true", "true">>

\* C9: a certificate whose delegation's certificate carries a delegation
\* itself is rejected with the nested-delegation error before any signature
\* is verified, whatever root key, times, canister and options come with it;
\* and no create runs verify() on more than two certificates or calls the
\* verifier more than twice.
C9_NestedDelegationRejected ==
  /\ ver.verifyRuns <= 2
  /\ Len(ver.blsCalls) <= 2
  /\ (ver.pc # "idle" /\ given.sc.deleg = "nested") =>
       /\ ver.pc = "rejected"
       /\ ver.result =
            Some(Throw(CertificateVerificationError("Delegation certificates cannot be nested")))
       /\ ver.blsCalls = <<>>
       /\ pc \in {"settled", "failed"}
       /\ result = ver.result

C9_Witness ==
  /\ pc = "settled"
  /\ given.sc.deleg = "nested"
  /\ given.sc.time = "fresh"
  /\ given.rootKey = Some(RootKey)
  /\ given.canisterId = <<2>>
  /\ given.disableTimeVerification = Some(TRUE)
  /\ ver.pc = "rejected"

\* the delegation's certificate has been verified, so that the canister
\* range check is the next step of _checkDelegationAndGetKey
RangeCheckDue == ver.pc # "idle" /\ InnerVerified

NotInRangeError ==
  Some(Throw(CertificateVerificationError("Canister not in range of delegations for subnet")))

\* C10: with a delegation and a canister other than the management canister,
\* create resolves only if some pair (low, high) of the subnet's
\* canister_ranges has low <= canisterId <= high; if the ranges are there and
\* no pair contains the canister, verification fails with the not-in-range
\* error before the outer signature is verified; for the management canister
\* the ranges are not looked at: whether they contain it, are empty or are
\* missing, verification goes on to the subnet key.
C10_CanisterRangeChecked ==
  /\ ( /\ ver.pc = "resolved"
       /\ given.sc.deleg # "none"
       /\ given.canisterId # ManagementCanister )
     => /\ ~IsUndefined(GivenRanges)
        /\ InSomeRange(given.canisterId, Get(GivenRanges))
  /\ ( /\ RangeCheckDue
       /\ given.canisterId # ManagementCanister
       /\ ~IsUndefined(GivenRanges)
       /\ ~InSomeRange(given.canisterId, Get(GivenRanges)) )
     => /\ ver.pc = "rejected"
        /\ ver.result = NotInRangeError
        /\ Len(ver.blsCalls) = 1
  /\ ( /\ RangeCheckDue
       /\ given.canisterId = ManagementCanister )
     => /\ ver.result # NotInRangeError
        /\ ver.result # Some(Throw(Error("Could not find canister ranges for subnet")))
        /\ ( /\ given.sc.deleg \notin {"noKey", "badKey", "keySubtree"}
             /\ given.sc.time = "fresh" )
           => Len(ver.blsCalls) = 2

C10_Witness ==
  /\ pc = "settled"
  /\ given.sc.deleg = "ok"
  /\ given.canisterId = <<5>>
  /\ ver.blsResults = <<"true">>
  /\ result = NotInRangeError

\* the key bytes inside a DER-wrapped key
Unwrapped(k) == SubSeq(k, 37 + 1, Len(k))

\* the signed message of a tree: the domain separator and the root hash
SignedMessage(t) == <<domain_sep("ic-state-root"), reconstruct(t)>>

\* C11: the first _blsVerify call of a create gets the DER-unwrapped root
\* key, both for a certificate without delegation and for the certificate of
\* a delegation; the call for a certificate with a delegation comes second,
\* after the verifier accepted the inner certificate, and gets the unwrapped
\* bytes found at ['subnet', subnet_id, 'public_key'] of the inner tree, not
\* the root key; when no byte value is found there (nothing, or a subtree)
\* create fails with the key-not-found error and makes no second call.
C11_KeyFollowsDelegation ==
  /\ Len(ver.blsCalls) >= 1 =>
       /\ ver.blsCalls[1].pk = Unwrapped(Get(given.rootKey))
       /\ ver.blsCalls[1].msg =
            IF given.sc.deleg = "none"
            THEN SignedMessage(Get(ver.c).cert.tree)
            ELSE SignedMessage(subnetTree(given.sc.deleg))
       /\ given.sc.deleg = "none" => Len(ver.blsCalls) = 1
  /\ Len(ver.blsCalls) = 2 =>
       /\ ver.blsResults[1] = "true"
       /\ ver.blsCalls[2].pk = Unwrapped(SubnetKey)
       /\ ver.blsCalls[2].pk # Unwrapped(Get(given.rootKey))
       /\ ver.blsCalls[2].msg = SignedMessage(Get(ver.c).cert.tree)
  /\ ( /\ RangeCheckDue
       /\ RangeCheckPassed
       /\ given.sc.deleg \in {"noKey", "keySubtree"} )
     => /\ ver.pc = "rejected"
        /\ ver.result = Some(Throw(Error("Could not find subnet key for subnet")))
        /\ Len(ver.blsCalls) = 1

C11_Witness ==
  /\ ver.pc = "resolved"
  /\ given.sc.deleg = "ok"
  /\ Len(ver.blsCalls) = 2
  /\ ver.blsCalls[1].pk = keyBytes(1)
  /\ ver.blsCalls[2].pk = keyBytes(2)

\* a create whose outcome the time check decides: no delegation, a
\* well-formed root key, time verification enabled, the default maximum age
TimeCheckDecides ==
  /\ InCreate
  /\ given.sc.deleg = "none"
  /\ given.rootKey = Some(RootKey)
  /\ IsUndefined(given.disableTimeVerification)
  /\ IsUndefined(given.maxAgeInMinutes)

\* C12: with time verification enabled the bounds of the freshness check are
\* inclusive to the nanosecond: a time of exactly now - maxAge or exactly
\* now + 5 min passes the check (the verifier is called), a time one
\* nanosecond before now - maxAge fails with the too-old error and a time one
\* nanosecond after now + 5 min fails with the in-the-future error.
C12_InclusiveNanosecondBounds ==
  TimeCheckDecides =>
    /\ given.sc.time \in {"earliest", "latest"} => Len(ver.blsCalls) = 1
    /\ given.sc.time = "beforeEarliest" =>
         /\ Len(ver.blsCalls) = 0
         /\ ver.result = Some(Throw(CertificateVerificationError(
              "Certificate is signed more than maxAgeInMinutes minutes in the past")))
    /\ given.sc.time = "afterLatest" =>
         /\ Len(ver.blsCalls) = 0
         /\ ver.result = Some(Throw(CertificateVerificationError(
              "Certificate is signed more than 5 minutes in the future")))

SignatureError ==
  [message |-> "Invalid certificate: Signature verification failed",
   code |-> Undefined, text |-> ""]

\* the verifier has answered true to every call so far
NoSignatureRefused == \A i \in 1..Len(ver.blsResults) : ver.blsResults[i] = "true"

\* the errors the steps of create other than the signature check raise
StepErrors ==
  { Error("cbor: decode failed"),
    Error("BLS DER-encoded public key must be 133 bytes long"),
    Error("BLS DER-encoded public key is invalid"),
    Error("Could not find canister ranges for subnet"),
    Error("Could not find subnet key for subnet"),
    Error("Invalid certificate: Delegation certificates cannot be nested"),
    Error("Invalid certificate: Canister not in range of delegations for subnet"),
    Error("Invalid certificate: Certificate does not contain a time"),
    Error("Invalid certificate: Certificate is signed more than maxAgeInMinutes minutes in the past"),
    Error("Invalid certificate: Certificate is signed more than 5 minutes in the future") }

\* C13: when the verifier throws or returns false, for the certificate or
\* for the certificate of its delegation, create fails at once with the
\* certificate error 'Signature verification failed' and not with an
\* exception of the verifier; every other failure of create is the error of
\* the step that raised it (decoding, DER unwrapping, delegation, time), so
\* an undecodable delegation fails with the decoder's error and a malformed
\* root key with the error of extractDER; and the caller gets the error of
\* create as it is.
C13_OnlyVerifierExceptionsCaught ==
  /\ \A i \in 1..Len(ver.blsResults) :
       ver.blsResults[i] # "true" =>
         /\ i = Len(ver.blsResults)
         /\ ver.pc = "rejected"
         /\ ver.result = Some(Throw(SignatureError))
  /\ (ver.pc = "rejected" /\ NoSignatureRefused) =>
       /\ ~Get(ver.result).ok
       /\ Get(ver.result).error \in StepErrors
       /\ given.sc.deleg = "malformed" =>
            Get(ver.result).error = Error("cbor: decode failed")
       /\ (given.sc.deleg \notin {"malformed", "nested"} /\ given.rootKey = Some(ShortKey)) =>
            Get(ver.result).error = Error("BLS DER-encoded public key must be 133 bytes long")
       /\ (given.sc.deleg \notin {"malformed", "nested"} /\ given.rootKey = Some(BadPrefixKey)) =>
            Get(ver.result).error = Error("BLS DER-encoded public key is invalid")
  /\ (ver.pc = "rejected" /\ pc \in {"settled", "failed"} /\ IsUndefined(failure)) =>
       result = ver.result

C13_Witness ==
  /\ pc = "settled"
  /\ given.sc.deleg = "ok"
  /\ ver.blsResults = <<"true", "throw">>
  /\ Get(result).error = SignatureError

(***************************************************************************)
(* Properties of lookup_path, find_label and reconstruct, stated on what   *)
(* the trees hold.                                                         *)
(***************************************************************************)
\* unsigned byte-lexicographic order: the first differing byte decides, a
\* proper prefix comes first
RECURSIVE LexLess(_, _)
LexLess(a, b) ==
  IF Len(b) = 0 THEN FALSE
  ELSE IF Len(a) = 0 THEN TRUE
  ELSE a[1] < b[1] \/ (a[1] = b[1] /\ LexLess(Tail(a), Tail(b)))

\* the labeled nodes a tree offers at its top: those under its forks
RECURSIVE LabeledNodes(_)
LabeledNodes(t) ==
  CASE t[1] = Fork -> LabeledNodes(t[2]) \cup LabeledNodes(t[3])
    [] t[1] = Labeled -> {t}
    [] OTHER -> {}

\* the subtree a path leads to in a tree, if the tree shows all of the path
RECURSIVE Under(_, _)
Under(t, p) ==
  IF Len(p) = 0 THEN Some(t)
  ELSE LET hits == { n \in LabeledNodes(t) : n[2] = p[1][2] }
       IN IF hits = {} THEN Undefined
          ELSE Under((CHOOSE n \in hits : TRUE)[3], Tail(p))

Contains(t, p) == Len(Under(t, p)) = 1

LeadsToLeaf(t, p) ==
  /\ Contains(t, p)
  /\ Get(Under(t, p))[1] = Leaf
  /\ Len(Get(Under(t, p))) = 2

\* lookup_path has been called, and has returned a result
LookedUp == Len(tree.lookup) = 1 /\ "status" \in DOMAIN Get(tree.lookup)

\* C14: when the path leads to a leaf of the tree and no node on the path
\* has been pruned, lookup_path on the pruned form returns Found with the
\* value of that leaf.
C14_PreservedPathFound ==
  (LookedUp /\ LeadsToLeaf(tree.t, tree.path) /\ LeadsToLeaf(tree.pruned, tree.path))
  => Get(tree.lookup) = FoundBuffer(bytesOf(Get(Under(tree.t, tree.path))[2]))

\* C15: the root hash of every pruned form of a tree is the root hash of the
\* tree, however many subtrees were replaced by Pruned nodes carrying their
\* digests; the root hash of a Pruned node is the digest it carries.
C15_PruningPreservesRoot ==
  Len(tree.root) = 1 =>
    /\ Get(tree.root) = reconstruct(tree.t)
    /\ tree.pruned[1] = Pruned => Get(tree.root) = tree.pruned[2]

C15_Witness ==
  /\ Len(tree.root) = 1
  /\ tree.pruned[1] = Fork
  /\ tree.pruned[2][1] = Pruned
  /\ tree.pruned[3][1] = Fork
  /\ tree.pruned[3][2][1] = Pruned
  /\ tree.pruned[3][3][1] = Labeled
  /\ Get(tree.root) = reconstruct(tree.t)

\* C16: lookup_path on a pruned form of a tree returns Absent only for a
\* path the tree does not hold; for a path that the tree holds and that the
\* pruned form hides behind a Pruned node it returns Unknown.
C16_AbsentProvesAbsence ==
  LookedUp =>
    /\ Get(tree.lookup).status = Absent => ~Contains(tree.t, tree.path)
    /\ (Contains(tree.t, tree.path) /\ ~Contains(tree.pruned, tree.path))
         => Get(tree.lookup).status = Unknown

\* C17: at a Labeled(l, t) node find_label returns Found(t) exactly when the
\* query label equals l, 'greater' exactly when the query label is byte-lex
\* greater than l and 'less' exactly when it is byte-lex smaller, also for
\* labels of different lengths.
C17_LabelOrderIsByteLex ==
  (Len(tree.label) = 1 /\ tree.pruned[1] = Labeled) =>
    LET q == tree.path[1][2]
        l == tree.pruned[2]
        r == Get(tree.label)
    IN /\ (r.status = Found) <=> (q = l)
       /\ r.status = Found => r = FoundTree(tree.pruned[3])
       /\ (r.status = Greater) <=> LexLess(l, q)
       /\ (r.status = Less) <=> LexLess(q, l)

(***************************************************************************)
(* Properties of hashValue, hashOfMap and requestIdOf.                     *)
(***************************************************************************)
\* C18: the digest of a map does not depend on the order of its entries:
\* a value built from the original by putting the entries of its objects in
\* other orders hashes, with hashValue and with requestIdOf, to the digest of
\* the original.
C18_MapOrderInvariant ==
  (hashing.reordered /\ ~hashing.unset /\ hashValue(hashing.original).ok) =>
    /\ Len(hashing.digest) = 1 => Get(hashing.digest) = hashValue(hashing.original)
    /\ Len(hashing.id) = 1 => Get(hashing.id) = requestIdOf(hashing.original)

C18_Witness ==
  /\ hashing.original = CallRequest
  /\ hashing.reordered
  /\ ~hashing.unset
  /\ hashing.value[2][1][1] = "arg"
  /\ hashing.value[2][4][1] = "request_type"
  /\ Len(hashing.digest) = 1
  /\ Len(hashing.id) = 1
  /\ Get(hashing.id).ok
  /\ Get(hashing.id) = requestIdOf(CallRequest)
  /\ Get(hashing.digest) = Get(hashing.id)

\* C19: entries set to undefined do not change the digest: a value built
\* from the original by adding keys set to undefined to its objects, the
\* top one or one nested in an array or in another object, hashes to the
\* digest of the original.
C19_UnsetEntriesIgnored ==
  (hashing.unset /\ ~hashing.reordered /\ hashValue(hashing.original).ok) =>
    /\ Len(hashing.digest) = 1 =>
         Get(hashing.digest).ok /\ Get(hashing.digest) = hashValue(hashing.original)
    /\ Len(hashing.id) = 1 =>
         Get(hashing.id).ok /\ Get(hashing.id) = requestIdOf(hashing.original)

C19_Witness ==
  /\ hashing.original[1] = "array"
  /\ Len(hashing.original[2]) = 2
  /\ hashing.unset
  /\ ~hashing.reordered
  /\ "nonce" \in KeysOf(hashing.value[2][1])
  /\ "nonce" \notin KeysOf(hashing.original[2][1])
  /\ Len(hashing.digest) = 1
  /\ Get(hashing.digest).ok
  /\ Get(hashing.digest) = hashValue(hashing.original)

\* the values inside a value that hashValue is applied to and has no branch
\* for (the entries of an object that are undefined are not hashed)
RECURSIVE Offending(_)
Offending(v) ==
  CASE v[1] \in {"tagged", "toHash"} -> Offending(v[2])
    [] v[1] = "array" -> UNION { Offending(v[2][i]) : i \in 1..Len(v[2]) }
    [] v[1] = "object" ->
         UNION { Offending(v[2][i][2]) :
                   i \in { j \in 1..Len(v[2]) : v[2][j][2][1] # "undefined" } }
    [] v[1] \in {"null", "boolean", "undefined", "function", "symbol"} -> {v}
    [] OTHER -> {}

\* how the message names a value
Described(x) ==
  CASE x[1] = "null" -> "null"
    [] x[1] = "boolean" -> IF x[2] THEN "true" ELSE "false"
    [] x[1] = "undefined" -> "undefined"
    [] x[1] = "function" -> "() => {}"
    [] x[1] = "symbol" -> "Symbol()"

UnsupportedTypeError(x) ==
  Raises(ErrorObject("Error",
                     "Attempt to hash a value of unsupported type: " \o Described(x),
                     Some(x)))

\* C20: hashing a value that holds, at the top or inside a sequence or a
\* map, a value of no supported kind fails with the 'unsupported type' error
\* that carries that value; it returns no digest and fails with no other
\* error.
C20_UnsupportedTypeError ==
  Offending(hashing.value) # {} =>
    /\ Len(hashing.digest) = 1 =>
         \E x \in Offending(hashing.value) : Get(hashing.digest) = UnsupportedTypeError(x)
    /\ Len(hashing.id) = 1 =>
         \E x \in Offending(hashing.value) : Get(hashing.id) = UnsupportedTypeError(x)

(***************************************************************************)
(* The order of the steps of verify().                                     *)
(***************************************************************************)
\* the checks one verify() makes on a certificate of its own before the
\* signature check, in the order of the pipeline (DER unwrap, then time),
\* each as <<violated, error, calls>>: whether what was given violates it,
\* the error of the check, and the number of _blsVerify calls the create has
\* made when the check is reached
OwnChecks(key, time, maxAge, enabled, calls) ==
  << <<Len(key) # 133, Error("BLS DER-encoded public key must be 133 bytes long"), calls>>,
     <<~WellFormedKey(key), Error("BLS DER-encoded public key is invalid"), calls>>,
     <<time = "missing",
       CertificateVerificationError("Certificate does not contain a time"), calls>>,
     <<enabled /\ time # "missing" /\ ~maxAge.inf
         /\ timeValue(time)[1] < Now - maxAge.n * 60 * 1000,
       CertificateVerificationError(
         "Certificate is signed more than maxAgeInMinutes minutes in the past"), calls>>,
     <<enabled /\ time # "missing" /\ timeValue(time)[1] > Now + 5 * 60 * 1000,
       CertificateVerificationError(
         "Certificate is signed more than 5 minutes in the future"), calls>> >>

\* the steps of delegation resolution: the nested-delegation check, the
\* verification of the inner certificate, the canister range, the subnet key
DelegationChecks ==
  << <<given.sc.deleg = "malformed", Error("cbor: decode failed"), 0>>,
     <<given.sc.deleg = "nested",
       CertificateVerificationError("Delegation certificates cannot be nested"), 0>> >>
  \o OwnChecks(Get(given.rootKey), InnerTime, Infinity, TRUE, 0)
  \o << <<Len(ver.blsResults) >= 1 /\ ver.blsResults[1] # "true", SignatureError, 1>>,
        <<given.canisterId # ManagementCanister /\ IsUndefined(GivenRanges),
          Error("Could not find canister ranges for subnet"), 1>>,
        <<given.canisterId # ManagementCanister /\ ~IsUndefined(GivenRanges)
            /\ ~InSomeRange(given.canisterId, Get(GivenRanges)),
          CertificateVerificationError("Canister not in range of delegations for subnet"), 1>>,
        <<given.sc.deleg \in {"noKey", "keySubtree"},
          Error("Could not find subnet key for subnet"), 1>> >>

\* the whole pipeline of Certificate.create for what it was given:
\* delegation resolution, DER unwrap, time freshness, signature check
Pipeline ==
  IF given.sc.deleg = "none"
  THEN OwnChecks(Get(given.rootKey), given.sc.time, GivenMaxAge,
                 given.disableTimeVerification # Some(TRUE), 0)
       \o << <<Len(ver.blsResults) = 1 /\ ver.blsResults[1] # "true", SignatureError, 1>> >>
  ELSE DelegationChecks
       \o OwnChecks(IF given.sc.deleg = "badKey" THEN ShortKey ELSE SubnetKey,
                    given.sc.time, GivenMaxAge,
                    given.disableTimeVerification # Some(TRUE), 1)
       \o << <<Len(ver.blsResults) = 2 /\ ver.blsResults[2] # "true", SignatureError, 2>> >>

\* the checks that fail for what was given, in the order of the pipeline
Failing == SelectSeq(Pipeline, LAMBDA step : step[1])

\* C21: a create that fails, fails with the error of the first step of the
\* pipeline (delegation resolution: nested-delegation check, inner
\* verification, canister range, subnet key; then DER unwrap; then time
\* freshness; then signature check) that fails for what it was given,
\* whatever later steps would fail too, and it has called the verifier only
\* for the certificates whose steps before the signature check all passed:
\* not at all when the first failure is a delegation, DER or time step of a
\* certificate without delegation or of the inner certificate, once (for
\* the inner certificate) when it is a later delegation step or the DER or
\* time step of the outer certificate.  A create resolves only when no step
\* fails.
C21_FirstFailingStepDecides ==
  /\ ver.pc = "rejected" =>
       /\ Len(Failing) >= 1
       /\ ver.result = Some(Throw(Failing[1][2]))
       /\ Len(ver.blsCalls) = Failing[1][3]
  /\ ver.pc = "resolved" => Len(Failing) = 0
  /\ (ver.pc \in {"blsInner", "blsOuter"} /\ Len(Failing) >= 1) =>
       Len(ver.blsCalls) <= Failing[1][3]

\* a certificate that violates three checks: the canister is outside the
\* ranges of the delegation, the subnet key is malformed and the time is
\* missing; the create fails with the error of the range check
C21_Witness ==
  /\ pc = "settled"
  /\ given.sc.deleg = "badKey"
  /\ given.canisterId = <<5>>
  /\ given.sc.time = "missing"
  /\ given.rootKey = Some(RootKey)
  /\ Len(Failing) >= 3
  /\ ver.blsResults = <<"true">>
  /\ Len(ver.blsCalls) = 1
  /\ result = NotInRangeError

(***************************************************************************)
(* The freshness checks of the inner and of the outer certificate.         *)
(***************************************************************************)
TooOldError ==
  Some(Throw(CertificateVerificationError(
    "Certificate is signed more than maxAgeInMinutes minutes in the past")))

TooNewError ==
  Some(Throw(CertificateVerificationError(
    "Certificate is signed more than 5 minutes in the future")))

\* the create has come to the time step of the certificate it was given:
\* the delegation, if any, is resolved and the key unwrapped
OuterTimeStepReached ==
  /\ ver.pc # "idle"
  /\ IF given.sc.deleg = "none"
     THEN WellFormedKey(Get(given.rootKey))
     ELSE /\ InnerVerified
          /\ RangeCheckPassed
          /\ given.sc.deleg \notin {"noKey", "badKey", "keySubtree"}

\* the time of the certificate given to create is before now - maxAge
OuterTooOld ==
  /\ given.sc.time # "missing"
  /\ ~GivenMaxAge.inf
  /\ timeValue(given.sc.time)[1] < Now - GivenMaxAge.n * 60 * 1000

\* C22: the certificate of a delegation passes its freshness check however
\* old it is and whatever maxAgeInMinutes the create was given: with a
\* well-formed root key the verifier is called for it; the too-old error is
\* only ever raised for the outer certificate, which fails with it whenever
\* its time is before now - maxAgeInMinutes (5 by default) and time
\* verification is not disabled.
C22_InnerNeverTooOld ==
  /\ ( /\ ver.pc # "idle"
       /\ given.sc.deleg \notin {"none", "malformed", "nested"}
       /\ WellFormedKey(Get(given.rootKey))
       /\ InnerTime \in {"ancient", "fresh"} )
     => /\ Len(ver.blsCalls) >= 1
        /\ ver.blsCalls[1].msg = SignedMessage(subnetTree(given.sc.deleg))
  /\ ver.result = TooOldError =>
       /\ OuterTooOld
       /\ given.disableTimeVerification # Some(TRUE)
       /\ OuterTimeStepReached
  /\ ( /\ OuterTimeStepReached
       /\ OuterTooOld
       /\ given.disableTimeVerification # Some(TRUE) )
     => /\ ver.pc = "rejected"
        /\ ver.result = TooOldError

\* a create with maxAgeInMinutes 10 and a delegation whose certificate is
\* dated at the epoch resolves
C22_Witness ==
  /\ pc = "settled"
  /\ given.sc.deleg = "innerAncient"
  /\ given.maxAgeInMinutes = Some(Finite(10))
  /\ given.sc.time = "fresh"
  /\ ver.pc = "resolved"
  /\ Len(ver.blsCalls) = 2
  /\ Get(result).ok

(***************************************************************************)
(* The status a poll round reads off the verified certificate.             *)
(***************************************************************************)
\* lookup of ['request_status', requestId, 'status'] in the certificate the
\* latest create of the poll resolved with
StatusLookup ==
  lookup_path(<<Buf(TextEncode("request_status")), Buf(call.requestId),
                Buf(TextEncode("status"))>>,
              Get(ver.c).cert.tree)

\* the latest round of the poll verified its certificate and the lookup of
\* the status gave no byte string: Absent, Unknown, or Found with a subtree
RoundWithoutStatusBytes ==
  /\ InPoll
  /\ ver.pc = "resolved"
  /\ \/ StatusLookup.status \in {Absent, Unknown}
     \/ /\ StatusLookup.status = Found
        /\ Get(StatusLookup.value)[1] # "ArrayBuffer"

\* C23: a round whose verified certificate gives no byte string for the
\* status is classified Unknown: the strategy is awaited with status
\* Unknown, the poll neither returns nor fails on account of the round (it
\* fails only with the exception of a call it awaited afterwards), and when
\* the strategy resolves the poll goes on to its next readState call.
C23_NoStatusBytesIsUnknown ==
  RoundWithoutStatusBytes =>
    /\ statuses[Len(statuses)] = UnknownStatus
    /\ strategyCalls[Len(strategyCalls)] = UnknownStatus
    /\ history => Len(strategyCalls) = Len(statuses)
    /\ pc \in {"strategy", "createReadStateRequest", "readState", "failed"}
    /\ pc = "strategy" => IsUndefined(result) /\ (history => Len(readStateCalls) = Len(served))
    /\ pc = "readState" => IsUndefined(result) /\ (history => Len(readStateCalls) = Len(served) + 1)
    /\ pc = "failed" =>
         /\ ~IsUndefined(failure)
         /\ result = Some(Throw(Get(failure)))
         /\ Get(failure) \in { Error("strategy: gave up"), Error("agent: readState failed"),
                               Error("agent: createReadStateRequest failed") }

\* a round whose certificate holds a subtree under 'status' has been
\* followed by a strategy call with Unknown and a second readState call
C23_Witness ==
  /\ history
  /\ RoundWithoutStatusBytes
  /\ given.sc.body = "subtree"
  /\ StatusLookup.status = Found
  /\ pc = "readState"
  /\ strategyCalls = <<UnknownStatus>>
  /\ Len(readStateCalls) = 2

(***************************************************************************)
(* A certificate without a time.                                           *)
(***************************************************************************)
NoTimeError ==
  Some(Throw(CertificateVerificationError("Certificate does not contain a time")))

\* C24 as stated: a create given a certificate without a 'time' value has
\* failed, in every configuration, with 'Certificate does not contain a
\* time' and without a call of the verifier.
C24_MissingTimeError ==
  (given.sc.time = "missing" /\ ver.pc \in {"rejected", "resolved"}) =>
    /\ ver.result = NoTimeError
    /\ Len(ver.blsCalls) = 0

\* C24: a create given a certificate without a 'time' value never resolves,
\* whether time verification is disabled or not.  Once the steps before the
\* time step have passed (delegation resolved, key unwrapped) it fails with
\* 'Certificate does not contain a time' and without a call of the verifier
\* for that certificate: no call at all without a delegation, only the call
\* for the inner certificate with one.  When an earlier step fails the
\* create fails with the error of that step.  The same holds for the
\* certificate of a delegation that has no time.
C24_MissingTimeFailsAtTimeStep ==
  /\ given.sc.time = "missing" =>
       /\ ver.pc # "resolved"
       /\ OuterTimeStepReached =>
            /\ ver.pc = "rejected"
            /\ ver.result = NoTimeError
            /\ Len(ver.blsCalls) = IF given.sc.deleg = "none" THEN 0 ELSE 1
       /\ (ver.pc = "rejected" /\ ~OuterTimeStepReached) =>
            /\ Len(Failing) >= 1
            /\ ver.result = Some(Throw(Failing[1][2]))
            /\ ver.result = NoTimeError => given.sc.deleg = "innerNoTime"
  /\ ( /\ ver.pc # "idle"
       /\ given.sc.deleg = "innerNoTime"
       /\ WellFormedKey(Get(given.rootKey)) )
     => /\ ver.pc = "rejected"
        /\ ver.result = NoTimeError
        /\ Len(ver.blsCalls) = 0

\* time verification is disabled, the delegation is verified and the
\* certificate has no time: the create fails with the missing-time error
\* after the one verifier call for the inner certificate
C24_Witness ==
  /\ pc = "settled"
  /\ given.sc.time = "missing"
  /\ given.disableTimeVerification = Some(TRUE)
  /\ given.sc.deleg = "ok"
  /\ given.canisterId = <<2>>
  /\ ver.blsResults = <<"true">>
  /\ Len(ver.blsCalls) = 1
  /\ result = NoTimeError

(***************************************************************************)
(* Time verification of the certificate of a delegation.                   *)
(***************************************************************************)
\* the certificate of the delegation is dated after now + 5 minutes, by a
\* millisecond ("future") or by a nanosecond ("afterLatest")
InnerDatedInFuture ==
  /\ given.sc.deleg \notin {"none", "malformed", "nested"}
  /\ InnerTime \in {"future", "afterLatest"}

\* C25: the certificate of a delegation is time-checked whatever
\* disableTimeVerification the create was given: a create whose delegation
\* certificate is dated more than 5 minutes in the future is rejected, with
\* a well-formed root key by the in-the-future error of the inner
\* certificate and before any call of the verifier.
C25_InnerAlwaysTimeChecked ==
  (ver.pc # "idle" /\ InnerDatedInFuture) =>
    /\ ver.pc = "rejected"
    /\ WellFormedKey(Get(given.rootKey)) =>
         /\ ver.result = TooNewError
         /\ Len(ver.blsCalls) = 0

(***************************************************************************)
(* A status string that is none of the six of RequestStatusResponseStatus. *)
(***************************************************************************)
KnownStatuses == {Received, Processing, UnknownStatus, Replied, RejectedStatus, Done}

\* the latest round of the poll verified its certificate and the bytes under
\* 'status' decode to a string that is none of the six statuses
RoundWithForeignStatus ==
  /\ InPoll
  /\ ver.pc = "resolved"
  /\ StatusLookup.status = Found
  /\ Get(StatusLookup.value)[1] = "ArrayBuffer"
  /\ TextDecode(Get(StatusLookup.value)[2]) \notin KnownStatuses

\* C26: a round whose verified certificate reports a string that is none of
\* the six statuses fails the poll with the 'unreachable' error, with no
\* strategy call for the round and no readState call after it; and the
\* strategy is called for exactly the rounds whose status is received,
\* processing or unknown, with that status.
C26_ForeignStatusUnreachable ==
  /\ RoundWithForeignStatus =>
       /\ pc = "failed"
       /\ result = Some(Throw(Error("unreachable")))
       /\ IsUndefined(failure)
       /\ statuses[Len(statuses)] \notin KnownStatuses
       /\ history => /\ Len(strategyCalls) = Len(statuses) - 1
                     /\ Len(readStateCalls) = Len(served)
  /\ (InPoll /\ history) =>
       strategyCalls = SelectSeq(statuses, LAMBDA st : st \in WaitingStatuses)

\* a poll failed as unreachable in its second round, after one retry
C26_Witness ==
  /\ RoundWithForeignStatus
  /\ given.sc.body = "pending"
  /\ pc = "failed"
  /\ result = Some(Throw(Error("unreachable")))
  /\ Len(statuses) = 2
  /\ statuses[1] \in WaitingStatuses
  /\ Len(strategyCalls) = 1
  /\ Len(readStateCalls) = 2

====
